---------------------------- MODULE Spec2Model ----------------------------
(***************************************************************************)
(* A model of the provider cache engine of hermitcrab: the archive store   *)
(* (storage.service.LoadArchive with its per-directory download barrier),  *)
(* the downloader (download.Client.Get), the metadata service (Query and    *)
(* the sync operations) and the validation of download requests.           *)
(*                                                                         *)
(* Sizes are counted in MiB: one element of a file's data is one MiB.      *)
(***************************************************************************)
EXTENDS Integers, Sequences, FiniteSets, TLC

(***************************************************************************)
(* Bounds of the model.                                                    *)
(***************************************************************************)
NumCallers == 2       \* concurrent LoadArchive callers
BigArchiveLen == 11   \* length of archive "big": more than one group of ranges
SmallArchiveLen == 3  \* length of archive "small": one group, two ranges
NumCPU == 2           \* runtimex.NumCPU() of the host

(***************************************************************************)
(* Program constants of download/client.go (in MiB).                       *)
(***************************************************************************)
partialBuffer == 2
parallel == 5

Callers == 1..NumCallers
NoCaller == 0
Filenames == {"big", "small"}

Min(a, b) == IF a < b THEN a ELSE b
Max(a, b) == IF a > b THEN a ELSE b

(***************************************************************************)
(* Files.  A path holds nothing, a regular file with its data, or a        *)
(* directory.  Data is a sequence of MiB blocks; block i of the upstream   *)
(* body of an archive is the number i, a block never written is 0.         *)
(***************************************************************************)
NoFile == [kind |-> "none", data |-> << >>]
Dir == [kind |-> "dir", data |-> << >>]
Regular(d) == [kind |-> "file", data |-> d]

ArchiveLen(f) == IF f = "big" THEN BigArchiveLen ELSE SmallArchiveLen
Body(f) == [i \in 1..ArchiveLen(f) |-> i]

\* os.File.Write of buf at offset off (0-based) of a file holding data.
WriteAt(data, off, buf) ==
  [i \in 1..Max(Len(data), off + Len(buf)) |->
     IF i > off /\ i <= off + Len(buf) THEN buf[i - off]
     ELSE IF i <= Len(data) THEN data[i] ELSE 0]

\* os.File.Truncate(n): the file is cut or extended with zero blocks.
Truncate(data, n) == [i \in 1..n |-> IF i <= Len(data) THEN data[i] ELSE 0]

(***************************************************************************)
(* SHA-256 is modelled as an injective function (no collisions): the       *)
(* digest of a file is the data itself.  hex.EncodeToString gives the      *)
(* lowercase hex form; a recorded Shasum is a hex string in some case, or  *)
(* the empty string.                                                       *)
(***************************************************************************)
EmptyShasum == [hexcase |-> "none", digest |-> << >>]
HexLower(d) == [hexcase |-> "lower", digest |-> d]
HexUpper(d) == [hexcase |-> "upper", digest |-> d]
ShasumKinds == {"empty", "lower", "upper", "other"}
ShasumOf(k, f) ==
  CASE k = "empty" -> EmptyShasum
    [] k = "lower" -> HexLower(Body(f))
    [] k = "upper" -> HexUpper(Body(f))
    [] OTHER -> HexLower(Truncate(Body(f), ArchiveLen(f) - 1))

validateShasumAlways(data, shasum) == TRUE

\* validateShasum: empty Shasum matches anything, otherwise the lowercase
\* hex SHA-256 of the whole file is compared with it.
validateShasum(data, shasum) ==
  IF shasum = EmptyShasum THEN TRUE ELSE HexLower(data) = shasum


(***************************************************************************)
(* The range download of downloadPartial.                                  *)
(***************************************************************************)
RECURSIVE bytesRanges(_, _)
\* The [start, end) ranges of at most partialBuffer covering
\* [receivedLength, contentLength).
bytesRanges(start, contentLength) ==
  IF start >= contentLength THEN << >>
  ELSE LET end == IF start + partialBuffer >= contentLength
                  THEN contentLength ELSE start + partialBuffer
       IN  << <<start, end>> >> \o bytesRanges(end, contentLength)

\* What upstream sends for "Range: bytes=s-e" (both ends inclusive).
ServeRange(body, s, e) == SubSeq(body, s + 1, Min(e + 1, Len(body)))

\* io.ReadFull into a slice of n blocks.
ReadFull(resp, n) == SubSeq(resp, 1, n)

RECURSIVE GroupBuf(_, _)
\* The buffer one group of ranges fills: every range [s, e) is requested as
\* bytes=s-e and e-s blocks of the answer are read at its place in the buffer.
GroupBuf(body, rs) ==
  IF rs = << >> THEN << >>
  ELSE ReadFull(ServeRange(body, rs[1][1], rs[1][2]), rs[1][2] - rs[1][1])
         \o GroupBuf(body, Tail(rs))

FirstGroup(rs) == SubSeq(rs, 1, Min(parallel, Len(rs)))
RestGroups(rs) == SubSeq(rs, Min(parallel, Len(rs)) + 1, Len(rs))

(***************************************************************************)
(* State of the archive store: one provider directory of the explicit      *)
(* directory, with its archives, its temp files and its barrier.           *)
(***************************************************************************)
VARIABLES
  pc,          \* where each LoadArchive caller is
  fname,       \* opts.Filename of each caller
  rd,          \* LoadOrStore's "loaded" of each caller
  br,          \* the barrier each caller got from LoadOrStore
  held,        \* the caller has a deferred release of its slot pending
  result,      \* what LoadArchive returned to each caller
  get,         \* the locals of each caller's download.Get
  barriers,    \* service.barriers for the directory: a barrier or none
  brDone,      \* barrier.done
  brLock,      \* holder of barrier.cond.L
  brNotify,    \* callers blocked in barrier.cond.Wait
  files,       \* <explicitDir>/<host>/<ns>/<type>/<filename>
  temps,       \* <explicitDir>/<host>/<ns>/<type>/.<filename>
  implied,     \* <impliedDir>/<host>/<ns>/<type>/<filename>
  shasum,      \* the Shasum recorded for each archive
  acceptRanges, \* upstream answers HEAD with Accept-Ranges: bytes
  transfers,   \* completed transfers of each archive's body
  faults       \* upstream requests that failed

archiveVars == <<pc, fname, rd, br, held, result, get, barriers, brDone,
                 brLock, brNotify, files, temps, implied, shasum,
                 acceptRanges, transfers, faults>>

(***************************************************************************)
(* State of the metadata service and of the request in the dispatcher.     *)
(***************************************************************************)
VARIABLES
  mpc,       \* where each goroutine of the metadata service is
  mop,       \* the operation a calling goroutine runs
  mres,      \* what the operation returned
  mjob,      \* the versions a goroutine still has to sync the platforms of
  mver,      \* the version whose platforms a goroutine is syncing
  merr,      \* the error of the sync the goroutine is in
  mups,      \* upstream requests sent by the goroutine's operation
  mref,      \* the provider bucket existed when the operation was called
  syncing,   \* service.syncing: the keys being synced
  writer,    \* the goroutine inside boltDriver.Update
  tx,        \* the uncommitted writes of the Update of syncVersions
  db,        \* the committed buckets of the provider
  now,       \* the clock
  zone,      \* the offset of the local zone
  up,        \* the upstream listing, its time of modification, its revision
  seen,      \* the revision of the listing the store was last written from
  synced,    \* the versions upstream returned to the syncs that committed
  ops        \* operations called so far

metaVars == <<mpc, mop, mres, mjob, mver, merr, mups, mref, syncing, writer,
              tx, db, now, zone, up, seen, synced, ops>>

VARIABLES
  rq,        \* the download request in the dispatcher or the handler
  rio,       \* the syncs, upstream requests and downloads made for it
  served     \* requests taken so far

requestVars == <<rq, rio, served>>

VARIABLES
  hm,        \* Handler.m: the mutex of the manual sync is locked
  puts,      \* the answer to each client's last PUT /v1/providers/sync
  run,       \* the runs of Metadata.Sync: of the handler's goroutines, of cron
  ended,     \* how the last run started by the handler ended
  nput       \* PUT requests handled so far

resyncVars == <<hm, puts, run, ended, nput>>

VARIABLES
  gsp,       \* the call of syncPlatforms: where it is, what it returned
  wg,        \* the functions given to the group of that call, per platform
  gsyncing,  \* service.syncing, for the keys of that version
  gwriter,   \* the member of the group inside boltDriver.Update
  gdb        \* the committed platform buckets of that version

groupVars == <<gsp, wg, gsyncing, gwriter, gdb>>

VARIABLES
  ssync,     \* the call of service.Sync: where it is, what it returned
  sbatch,    \* the functions given to the group of that call, per batch
  scalled,   \* the calls of syncVersions made for each bucket
  sfailed    \* a syncVersions of that call has returned an error

batchVars == <<ssync, sbatch, scalled, sfailed>>

\* What the steps of one part leave alone.
notArchive == <<metaVars, requestVars, resyncVars, groupVars, batchVars>>
notMeta == <<archiveVars, requestVars, resyncVars, groupVars, batchVars>>
notRequest == <<archiveVars, metaVars, resyncVars, groupVars, batchVars>>
notResync == <<archiveVars, metaVars, requestVars, groupVars, batchVars>>
notGroup == <<archiveVars, metaVars, requestVars, resyncVars, batchVars>>
notBatch == <<archiveVars, metaVars, requestVars, resyncVars, groupVars>>

NoGet == [partialDownload |-> FALSE, receivedLength |-> 0, contentLength |-> 0,
          offset |-> 0, ranges |-> << >>, err |-> FALSE]
NoResult == [status |-> "none", data |-> << >>]
Archive(d) == [status |-> "ok", data |-> d]
\* LoadArchive returns the error of Get: "output is a directory",
\* "download" (a request failed) or "shasum mismatched".
Failed(e) == [status |-> e, data |-> << >>]

\* What an earlier run of the process, or the operator, has left at a path:
\* nothing, a directory, or a regular file.  A left archive lacks the last
\* block of the body, a left temp file has a block more than the body, and
\* the mirror of the implied directory holds archive "big" with a content of
\* its own.
LeftKinds == {"none", "dir", "file"}
LeftFile(k, f) ==
  CASE k = "none" -> NoFile
    [] k = "dir" -> Dir
    [] OTHER -> Regular(Truncate(Body(f), ArchiveLen(f) - 1))
LeftTemp(k, f) ==
  CASE k = "none" -> NoFile
    [] k = "dir" -> Dir
    [] OTHER -> Regular(Body(f) \o <<0>>)
ImpliedFile(k, f) ==
  CASE k = "none" \/ f # "big" -> NoFile
    [] k = "dir" -> Dir
    [] OTHER -> Regular(<<0>>)

\* The directories hold nothing: no archive, no temp file, no mirror.
FreshStore ==
  /\ files = [f \in Filenames |-> NoFile]
  /\ temps = [f \in Filenames |-> NoFile]
  /\ implied = [f \in Filenames |-> NoFile]

ArchiveInit ==
  /\ pc = [p \in Callers |-> "idle"]
  /\ fname = [p \in Callers |-> "big"]
  /\ rd = [p \in Callers |-> FALSE]
  /\ br = [p \in Callers |-> NoCaller]
  /\ held = [p \in Callers |-> FALSE]
  /\ result = [p \in Callers |-> NoResult]
  /\ get = [p \in Callers |-> NoGet]
  /\ barriers = NoCaller
  /\ brDone = [b \in Callers |-> FALSE]
  /\ brLock = [b \in Callers |-> NoCaller]
  /\ brNotify = [b \in Callers |-> {}]
  /\ \E k \in LeftKinds : files = [f \in Filenames |-> LeftFile(k, f)]
  /\ \E k \in LeftKinds : temps = [f \in Filenames |-> LeftTemp(k, f)]
  /\ \E k \in LeftKinds : implied = [f \in Filenames |-> ImpliedFile(k, f)]
  /\ \E k \in ShasumKinds : shasum = [f \in Filenames |-> ShasumOf(k, f)]
  /\ acceptRanges \in BOOLEAN
  /\ transfers = [f \in Filenames |-> 0]
  /\ faults = 0


(***************************************************************************)
(* storage.service.LoadArchive, one action per step of a caller.           *)
(***************************************************************************)

\* A frame of LoadArchive returns res: the owner of the slot still has its
\* deferred release to run, any other caller is done.
Return(p, res) ==
  /\ result' = [result EXCEPT ![p] = res]
  /\ pc' = [pc EXCEPT ![p] = IF held[p] THEN "release" ELSE "done"]

\* A request for an archive arrives.  Callers are interchangeable, so they
\* are taken in the order of their numbers.
Call(p, f) ==
  /\ pc[p] = "idle"
  /\ \A q \in Callers : q < p => pc[q] # "idle"
  /\ pc' = [pc EXCEPT ![p] = "resolve"]
  /\ fname' = [fname EXCEPT ![p] = f]
  /\ UNCHANGED notArchive
  /\ UNCHANGED <<rd, br, held, result, get, barriers, brDone, brLock,
                 brNotify, files, temps, shasum, implied, acceptRanges, transfers,
                 faults>>

\* Look-ups that never find the archive.
ImpliedNeverHit(file) == FALSE
ExplicitNeverHit(file) == FALSE

\* The look-up in the implied directory: os.Stat finds the path, it is no
\* directory and it can be opened.
ImpliedHit(file) == file.kind = "file"

\* The look-up in the explicit directory, after a directory at the path was
\* removed: os.Stat has found a file.
ExplicitHit(file) == file.kind = "file"

\* The look-ups of LoadArchive: a regular file of the implied directory is
\* opened and returned; else a regular file of the explicit directory is
\* opened and returned, a directory there is removed, and a missing archive
\* is downloaded.
Resolve(p) ==
  /\ pc[p] = "resolve"
  /\ fname[p] \in Filenames
  /\ LET f == fname[p] IN
       CASE ImpliedHit(implied[f]) ->
              /\ Return(p, Archive(implied[f].data))
              /\ UNCHANGED files
         [] ~ImpliedHit(implied[f]) /\ ExplicitHit(files[f]) ->
              /\ Return(p, Archive(files[f].data))
              /\ UNCHANGED files
         [] OTHER ->
              /\ files' = [files EXCEPT ![f] = NoFile]
              /\ pc' = [pc EXCEPT ![p] = "slot"]
              /\ UNCHANGED result
  /\ UNCHANGED notArchive
  /\ UNCHANGED <<fname, rd, br, held, get, barriers, brDone, brLock,
                 brNotify, temps, shasum, implied, acceptRanges, transfers,
                 faults>>

\* sync.Map.LoadOrStore on a map that never reports a stored barrier.
LoadOrStoreBlind(m, b) == [actual |-> b, loaded |-> FALSE, stored |-> b]

\* sync.Map.LoadOrStore(d, b): the barrier stored for the directory if there
\* is one, and b, which it stores, if not.
LoadOrStore(m, b) ==
  IF m # NoCaller THEN [actual |-> m, loaded |-> TRUE, stored |-> m]
  ELSE [actual |-> b, loaded |-> FALSE, stored |-> b]

\* v, rd = s.barriers.LoadOrStore(d, newBarrier()); the new barrier of a
\* caller is named after the caller.
Slot(p) ==
  /\ pc[p] = "slot"
  /\ LET r == LoadOrStore(barriers, p) IN
       /\ barriers' = r.stored
       /\ br' = [br EXCEPT ![p] = r.actual]
       /\ rd' = [rd EXCEPT ![p] = r.loaded]
  /\ pc' = [pc EXCEPT ![p] = "lock"]
  /\ UNCHANGED notArchive
  /\ UNCHANGED <<fname, held, result, get, brDone, brLock, brNotify, files,
                 temps, shasum, implied, acceptRanges, transfers, faults>>

\* br.Lock(): a waiter goes on to br.Wait(), the owner to the download with
\* its release deferred.
Lock(p) ==
  /\ pc[p] = "lock"
  /\ brLock[br[p]] = NoCaller
  /\ brLock' = [brLock EXCEPT ![br[p]] = p]
  /\ pc' = [pc EXCEPT ![p] = IF rd[p] THEN "wait" ELSE "get"]
  /\ held' = [held EXCEPT ![p] = held[p] \/ ~rd[p]]
  /\ UNCHANGED notArchive
  /\ UNCHANGED <<fname, rd, br, result, get, barriers, brDone, brNotify,
                 files, temps, shasum, implied, acceptRanges, transfers, faults>>

\* barrier.Wait with the lock held: leave and resolve again once done is
\* set, else block in cond.Wait, which releases the lock.
Wait(p) ==
  /\ pc[p] = "wait"
  /\ brLock[br[p]] = p
  /\ brLock' = [brLock EXCEPT ![br[p]] = NoCaller]
  /\ IF brDone[br[p]]
     THEN /\ pc' = [pc EXCEPT ![p] = "resolve"]
          /\ br' = [br EXCEPT ![p] = NoCaller]
          /\ UNCHANGED brNotify
     ELSE /\ pc' = [pc EXCEPT ![p] = "blocked"]
          /\ brNotify' = [brNotify EXCEPT ![br[p]] = @ \cup {p}]
          /\ UNCHANGED br
  /\ UNCHANGED notArchive
  /\ UNCHANGED <<fname, rd, held, result, get, barriers, brDone, files,
                 temps, shasum, implied, acceptRanges, transfers, faults>>

\* cond.Wait returns after a Broadcast: the lock is taken again.
Wake(p) ==
  /\ pc[p] = "blocked"
  /\ p \notin brNotify[br[p]]
  /\ brLock[br[p]] = NoCaller
  /\ brLock' = [brLock EXCEPT ![br[p]] = p]
  /\ pc' = [pc EXCEPT ![p] = "wait"]
  /\ UNCHANGED notArchive
  /\ UNCHANGED <<fname, rd, br, held, result, get, barriers, brDone,
                 brNotify, files, temps, shasum, implied, acceptRanges, transfers,
                 faults>>

\* The deferred function of the owner: s.barriers.Delete(d).
Release(p) ==
  /\ pc[p] = "release"
  /\ barriers' = NoCaller
  /\ pc' = [pc EXCEPT ![p] = "finish"]
  /\ UNCHANGED notArchive
  /\ UNCHANGED <<fname, rd, br, held, result, get, brDone, brLock, brNotify,
                 files, temps, shasum, implied, acceptRanges, transfers, faults>>

\* barrier.Done, first half: done is set and the lock released.
Done(p) ==
  /\ pc[p] = "finish"
  /\ brDone' = [brDone EXCEPT ![br[p]] = TRUE]
  /\ brLock' = [brLock EXCEPT ![br[p]] = NoCaller]
  /\ pc' = [pc EXCEPT ![p] = "broadcast"]
  /\ UNCHANGED notArchive
  /\ UNCHANGED <<fname, rd, br, held, result, get, barriers, brNotify, files,
                 temps, shasum, implied, acceptRanges, transfers, faults>>

\* A Done that signals nobody.
BroadcastLost(p) ==
  /\ pc[p] = "broadcast"
  /\ held' = [held EXCEPT ![p] = FALSE]
  /\ br' = [br EXCEPT ![p] = NoCaller]
  /\ pc' = [pc EXCEPT ![p] = "done"]
  /\ UNCHANGED notArchive
  /\ UNCHANGED <<fname, rd, result, get, barriers, brDone, brLock, brNotify,
                 files, temps, shasum, implied, acceptRanges, transfers, faults>>

\* barrier.Done, second half: cond.Broadcast; LoadArchive has returned.
Broadcast(p) ==
  /\ pc[p] = "broadcast"
  /\ brNotify' = [brNotify EXCEPT ![br[p]] = {}]
  /\ held' = [held EXCEPT ![p] = FALSE]
  /\ br' = [br EXCEPT ![p] = NoCaller]
  /\ pc' = [pc EXCEPT ![p] = "done"]
  /\ UNCHANGED notArchive
  /\ UNCHANGED <<fname, rd, result, get, barriers, brDone, brLock, files,
                 temps, shasum, implied, acceptRanges, transfers, faults>>

(***************************************************************************)
(* download.Client.Get, run by the owner of the slot.                      *)
(***************************************************************************)

\* Get returns: with an error LoadArchive returns it, without one
\* LoadArchive resolves again.
GetReturn(p, err) ==
  /\ get' = [get EXCEPT ![p] =
               [NoGet EXCEPT !.partialDownload = get[p].partialDownload]]
  /\ IF err # "" THEN Return(p, Failed(err))
     ELSE /\ pc' = [pc EXCEPT ![p] = "resolve"]
          /\ UNCHANGED result

\* The locals of Get after the checks of the output and of the temp file and
\* the HEAD request (headOK: it was answered 200).
GetLocals(temp, body, headOK) ==
  LET size == IF temp.kind = "none" THEN 0 ELSE Len(temp.data)
      contentLength == IF headOK THEN Len(body) ELSE 0
      partialDownload == headOK /\ acceptRanges /\ contentLength > 0 /\ NumCPU > 1
  IN  [partialDownload |-> partialDownload,
       receivedLength |-> IF partialDownload /\ size > contentLength THEN 0 ELSE size,
       contentLength |-> contentLength,
       offset |-> 0, ranges |-> << >>, err |-> FALSE]

\* The temp file after the checks and os.OpenFile(O_WRONLY|O_CREATE): one
\* that is no regular file, or is longer than the advertised length of a
\* range download, is removed, and a missing one is created empty.
GetTemp(temp, body, headOK) ==
  LET l == GetLocals(temp, body, headOK) IN
    IF temp.kind # "file" \/ (l.partialDownload /\ Len(temp.data) > l.contentLength)
    THEN Regular(<< >>) ELSE temp

OutputNeverMatches(file, sh) == FALSE

\* The check of an existing output: a regular file whose hash matches the
\* Shasum is kept, and Get returns at once.
OutputMatches(file, sh) == file.kind = "file" /\ validateShasum(file.data, sh)

\* Get up to the opening of the temp file: an existing output is kept if its
\* hash matches (Get returns) and removed if not.
GetBegin(p) ==
  /\ pc[p] = "get"
  /\ fname[p] \in Filenames
  /\ LET f == fname[p] IN
       CASE files[f].kind = "dir" ->
              /\ GetReturn(p, "output is a directory")
              /\ UNCHANGED <<files, temps>>
         [] OutputMatches(files[f], shasum[f]) ->
              /\ GetReturn(p, "")
              /\ UNCHANGED <<files, temps>>
         [] OTHER ->
              \E headOK \in BOOLEAN :
                /\ files' = [files EXCEPT ![f] = NoFile]
                /\ get' = [get EXCEPT ![p] = GetLocals(temps[f], Body(f), headOK)]
                /\ temps' = [temps EXCEPT ![f] = GetTemp(temps[f], Body(f), headOK)]
                /\ pc' = [pc EXCEPT ![p] = "download"]
                /\ UNCHANGED result
  /\ UNCHANGED notArchive
  /\ UNCHANGED <<fname, rd, br, held, barriers, brDone, brLock, brNotify,
                 shasum, implied, acceptRanges, transfers, faults>>

\* A temp file with a wrong hash that is kept when the download was a range
\* download.
MismatchedKept(temp, partialDownload) ==
  IF partialDownload THEN temp ELSE NoFile

\* The temp file whose hash does not match the Shasum, after
\* os.RemoveAll(tempPath).
Mismatched(temp, partialDownload) == NoFile

\* The end of Get on a downloaded temp file: it is renamed to the output
\* when its hash matches the Shasum and removed when it does not.
Finish(p, data) ==
  LET f == fname[p] IN
    IF validateShasum(data, shasum[f])
    THEN /\ files' = [files EXCEPT ![f] = Regular(data)]
         /\ temps' = [temps EXCEPT ![f] = NoFile]
         /\ GetReturn(p, "")
    ELSE /\ temps' = [temps EXCEPT ![f] =
                       Mismatched(Regular(data), get[p].partialDownload)]
         /\ GetReturn(p, "shasum mismatched")
         /\ UNCHANGED files

\* Client.download and the end of Get: the body of one GET is copied over
\* the temp file from its beginning.  When the request fails Get removes the
\* temp file.
Download(p) ==
  /\ pc[p] = "download"
  /\ ~get[p].partialDownload
  /\ LET f == fname[p] IN
       \/ /\ Finish(p, WriteAt(temps[f].data, 0, Body(f)))
          /\ transfers' = [transfers EXCEPT ![f] = @ + 1]
          /\ UNCHANGED faults
       \/ /\ temps' = [temps EXCEPT ![f] = NoFile]
          /\ faults' = faults + 1
          /\ GetReturn(p, "download")
          /\ UNCHANGED <<files, transfers>>
  /\ UNCHANGED notArchive
  /\ UNCHANGED <<fname, rd, br, held, barriers, brDone, brLock, brNotify,
                 shasum, implied, acceptRanges>>

\* The file and the locals when downloadPartial has prepared the file: a
\* fresh download sizes the file, a resumed one seeks to its end.
PartialStart(l, data) ==
  [data |-> IF l.receivedLength = 0 THEN Truncate(data, l.contentLength) ELSE data,
   offset |-> IF l.receivedLength = 0 THEN 0 ELSE Len(data),
   ranges |-> bytesRanges(l.receivedLength, l.contentLength)]

RECURSIVE WriteGroups(_, _, _, _)
\* The file after g more groups of at most `parallel` ranges were fetched
\* and their buffers written at the file's offset, one after the other.
\* s is [data, offset, ranges].
WriteGroups(s, body, g, n) ==
  IF g = 0 \/ s.ranges = << >> THEN [s EXCEPT !.offset = n]
  ELSE LET buf == GroupBuf(body, FirstGroup(s.ranges)) IN
         WriteGroups([data |-> WriteAt(s.data, s.offset, buf),
                      offset |-> s.offset + Len(buf),
                      ranges |-> RestGroups(s.ranges)], body, g - 1, n + 1)

\* The number of groups downloadPartial fetches for these ranges.
NumGroups(rs) == (Len(rs) + parallel - 1) \div parallel

\* Client.downloadPartial and the end of Get.  Nothing is fetched when the
\* temp file already has the advertised length.  Otherwise g groups are
\* fetched and written; when a request of the next group fails,
\* downloadPartial returns the error and Get keeps the temp file.
DownloadPartial(p) ==
  /\ pc[p] = "download"
  /\ get[p].partialDownload
  /\ LET f == fname[p]
         l == get[p]
         s == PartialStart(l, temps[f].data) IN
       IF l.receivedLength = l.contentLength
       THEN /\ Finish(p, temps[f].data)
            /\ UNCHANGED <<transfers, faults>>
       ELSE \E g \in 0..NumGroups(s.ranges) :
              LET w == WriteGroups(s, Body(f), g, 0) IN
                IF w.ranges = << >>
                THEN /\ Finish(p, w.data)
                     /\ transfers' = [transfers EXCEPT ![f] = @ + 1]
                     /\ UNCHANGED faults
                ELSE /\ temps' = [temps EXCEPT ![f] = Regular(w.data)]
                     /\ faults' = faults + 1
                     /\ GetReturn(p, "download")
                     /\ UNCHANGED <<files, transfers>>
  /\ UNCHANGED notArchive
  /\ UNCHANGED <<fname, rd, br, held, barriers, brDone, brLock, brNotify,
                 shasum, implied, acceptRanges>>

\* The Filename of a platform whose stored record has none.
EmptyFilename == ""

\* The look-ups of LoadArchive for an empty Filename: filepath.Join gives
\* the directory of the provider for the path.  In the implied directory a
\* directory is passed over; in the explicit directory it is removed with
\* os.RemoveAll, with the archives and temp files in it, and a missing one
\* is made; then the archive is to be downloaded.
ResolveEmpty(p) ==
  /\ pc[p] = "resolve"
  /\ fname[p] = EmptyFilename
  /\ files' = [f \in Filenames |-> NoFile]
  /\ temps' = [f \in Filenames |-> NoFile]
  /\ pc' = [pc EXCEPT ![p] = "slot"]
  /\ UNCHANGED notArchive
  /\ UNCHANGED <<fname, rd, br, held, result, get, barriers, brDone, brLock,
                 brNotify, shasum, implied, acceptRanges, transfers, faults>>

\* Get for an empty Filename returns the error "invalid options".
GetEmpty(p) ==
  /\ pc[p] = "get"
  /\ fname[p] = EmptyFilename
  /\ GetReturn(p, "invalid options")
  /\ UNCHANGED notArchive
  /\ UNCHANGED <<fname, rd, br, held, get, barriers, brDone, brLock, brNotify,
                 files, temps, shasum, implied, acceptRanges, transfers,
                 faults>>

ArchiveNext ==
  \E p \in Callers :
    \/ \E f \in Filenames : Call(p, f)
    \/ Resolve(p)
    \/ Slot(p)
    \/ Lock(p)
    \/ Wait(p)
    \/ Wake(p)
    \/ GetBegin(p)
    \/ Download(p)
    \/ DownloadPartial(p)
    \/ Release(p)
    \/ Done(p)
    \/ Broadcast(p)

\* The requests for archives of a provider one of whose platforms has no
\* Filename.
EmptyNameNext ==
  \E p \in Callers :
    \/ \E f \in Filenames \cup {EmptyFilename} : Call(p, f)
    \/ Resolve(p)
    \/ ResolveEmpty(p)
    \/ Slot(p)
    \/ Lock(p)
    \/ Wait(p)
    \/ Wake(p)
    \/ GetBegin(p)
    \/ GetEmpty(p)
    \/ Download(p)
    \/ DownloadPartial(p)
    \/ Release(p)
    \/ Done(p)
    \/ Broadcast(p)
(***************************************************************************)
(* The metadata service for one provider (hostname, namespace, type): its  *)
(* buckets in the bolt database, the map of keys being synced, the         *)
(* upstream registry, and the goroutines that call the service.  Times are *)
(* counted in hours.                                                       *)
(***************************************************************************)
NumSyncers == 2
MaxBg == 1
MaxOps == 2
MaxTime == 2
MaxChanges == 1

Syncers == 1..NumSyncers
Bgs == (NumSyncers + 1)..(NumSyncers + MaxBg)
MetaProcs == Syncers \cup Bgs
NoProc == 0
NoGen == 0

\* The zone of the local clock, as its offset from UTC.
ZoneOffsets == {-1, 0, 1}

\* The value of a "modified" key: absent, or the RFC3339 text of a time, that
\* is its wall clock in a zone and the offset of the zone.
NoStamp == [set |-> FALSE, wall |-> 0, off |-> 0]

\* A format that yields no text.
FormatNothing(t, z) == NoStamp

\* time.Now().Format(time.RFC3339) at instant t with the local zone.
FormatRFC3339(t, z) == [set |-> TRUE, wall |-> t + z, off |-> z]

\* time.Parse(time.RFC3339, s): the instant, in the zone of the text; the
\* zero time when there is no text.
ParseRFC3339(s) ==
  IF s.set THEN [zero |-> FALSE, instant |-> s.wall - s.off, off |-> s.off]
  ELSE [zero |-> TRUE, instant |-> 0, off |-> 0]

\* t.Format(http.TimeFormat): the wall clock of t in the zone t carries,
\* followed by the letters GMT; the reader takes it for an instant of GMT.
FormatHTTPTime(t) == t.instant + t.off

\* The If-Modified-Since header of a request with this `since`.
IfModifiedSince(since) ==
  IF since.zero THEN [present |-> FALSE, value |-> 0]
  ELSE [present |-> TRUE, value |-> FormatHTTPTime(since)]

\* The upstream registry: 304 to a conditional request when the listing was
\* not modified after the time of the header, else 200 with the body.
StatusOf(u, header) ==
  IF header.present /\ u.modified <= header.value THEN 304 ELSE 200

\* What the upstream publishes.
NoVersion == ""
Linux == [os |-> "linux", arch |-> "amd64"]
DeclaredPlatforms(v) == IF v = "2.0.0" THEN <<Linux>> ELSE << >>
VersionObject(v) == [version |-> v, platforms |-> DeclaredPlatforms(v)]
PlatformObject(v) ==
  [version |-> v, os |-> Linux.os, arch |-> Linux.arch,
   filename |-> <<"terraform-provider-type", v, Linux.os, Linux.arch, ".zip">>,
   shasum |-> <<"sha256", v, Linux.os, Linux.arch>>]
\* A body whose "versions" is the array of these versions, in this order.
Listing(vs) ==
  [array |-> TRUE,
   entries |-> {VersionObject(vs[i]) : i \in DOMAIN vs},
   order |-> [i \in DOMAIN vs |-> VersionObject(vs[i])]]
\* A body whose "versions" is an object, not an array.
NotArray == [array |-> FALSE, entries |-> {VersionObject("0.9.0")},
             order |-> <<VersionObject("0.9.0")>>]
\* The listings: of two versions, of one version and an entry without a
\* version, of no array, and of two versions with one between them that is
\* no semantic version.
UpstreamBodies ==
  {Listing(<<"1.0.0", "2.0.0">>), Listing(<<"2.0.0", NoVersion>>), NotArray,
   Listing(<<"1.0.0", "nightly", "2.0.0">>)}

\* A GetVersions that takes the entries of any body.
ProviderGetVersionsAnyBody(since, u) ==
  LET header == IfModifiedSince(since)
      status == StatusOf(u, header) IN
    [conditional |-> header.present,
     status |-> status,
     nil |-> ~since.zero /\ status = 304,
     entries |-> IF ~since.zero /\ status = 304 THEN {} ELSE u.body.entries,
     order |-> IF ~since.zero /\ status = 304 THEN << >> ELSE u.body.order]

\* registry.Provider.GetVersions: nil on 304 to a conditional request, the
\* body when its "versions" is an array, and {"versions":[]} when not.
ProviderGetVersions(since, u) ==
  LET header == IfModifiedSince(since)
      status == StatusOf(u, header) IN
    [conditional |-> header.present,
     status |-> status,
     nil |-> ~since.zero /\ status = 304,
     entries |-> IF ~since.zero /\ status = 304 THEN {}
                 ELSE IF u.body.array THEN u.body.entries ELSE {},
     order |-> IF ~since.zero /\ status = 304 THEN << >>
               ELSE IF u.body.array THEN u.body.order ELSE << >>]

\* registry.Provider.GetPlatform: nil on 304 to a conditional request, else
\* the descriptor of the platform.
ProviderGetPlatform(v, since, u) ==
  LET header == IfModifiedSince(since)
      status == StatusOf(u, header) IN
    [nil |-> ~since.zero /\ status = 304, object |-> PlatformObject(v)]

\* The sync keys: path.Join of the provider, the version and the platform.
TypedKey == <<"host", "ns", "type">>
VersionKey(v) == TypedKey \o <<v>>
PlatformKey(v, pf) == VersionKey(v) \o <<pf.os, pf.arch>>

\* The bucket of the provider: whether it exists, its "modified" key, the
\* "data" of its version buckets and, for the version buckets that have one,
\* the platform bucket ("data" and "modified").
NoBuckets == [v \in {} |-> NoStamp]
NoData == [version |-> NoVersion]
EmptyDB == [typed |-> FALSE, modified |-> NoStamp, versions |-> NoBuckets,
            platforms |-> NoBuckets]

\* No write transaction is open.
NoTx == [open |-> FALSE, nil |-> FALSE, gen |-> 0, entries |-> {},
         todo |-> << >>, stored |-> << >>, versions |-> NoBuckets]

\* A view that shows the writes of the open transaction.
ViewDirty(d, t) ==
  IF t.open THEN [d EXCEPT !.typed = TRUE, !.versions = t.versions] ELSE d

\* boltDriver.View: the function reads the committed buckets; the writes of
\* a transaction that is still open are not among them.
View(d, t) == d

\* A rollback that keeps the bucket of the provider the Update has created.
RollbackKeepsBucket(d) == [d EXCEPT !.typed = TRUE]

\* boltDriver.Update whose function returns an error: the entire transaction
\* is rolled back, the committed buckets are as before.
Rollback(d) == d

\* A version bucket that is always found.
VersionAlwaysFound(d, v) == TRUE

\* syncPlatform: the bucket of the provider and in it the bucket of the
\* version are there.
VersionFound(d, v) == d.typed /\ v \in DOMAIN d.versions

\* A version that declares no platform.
DeclaredNone(d, v) == << >>

\* Query: version.Platforms, unmarshaled from the data of the version.
Declared(d, v) == d.versions[v].platforms

\* A loop that leaves only the versions of the body in the bucket.
UpsertListed(versions, entries) ==
  LET named == {e \in entries : e.version # NoVersion} IN
    [v \in {e.version : e \in named} |-> CHOOSE e \in named : e.version = v]

\* An upsert that stores nothing.
UpsertNothing(versions, entries) == versions

\* The loop over the "versions" of the body: each entry with a non-empty
\* version is put as the data of its version bucket, created if missing.
Upsert(versions, entries) ==
  LET named == {e \in entries : e.version # NoVersion} IN
    [v \in DOMAIN versions \cup {e.version : e \in named} |->
       IF \E e \in named : e.version = v
       THEN CHOOSE e \in named : e.version = v
       ELSE versions[v]]

\* The versions the loop has stored, as names.
Stored(entries) == {e.version : e \in {x \in entries : x.version # NoVersion}}

\* A deferred Delete that leaves the key.
DeleteNothing(m, key) == m

\* s.syncing.Delete(key).
Delete(m, key) == m \ {key}

\* A write transaction that waits for no other.
BeginUnserialized(w) == TRUE

\* BoltDriver.Update begins a write transaction: only one can be used at a
\* time, and the call blocks until the current one, of w, finishes.
Begin(w) == w = NoProc

\* semver.NewVersion: nil for a text that is no semantic version.
Nil == "nil"
NewVersion(v) == IF v \in {"0.9.0", "1.0.0", "2.0.0", "3.0.0"} THEN v ELSE Nil

\* semver.Version.GreaterThan on the versions the upstream publishes.
Major(v) == IF v = "2.0.0" THEN 2 ELSE 1
GreaterThan(v, w) == Major(v) > Major(w)

\* The less function syncVersions gives to sort.Slice: false when either
\* version is nil.
less(v, w) == v # Nil /\ w # Nil /\ GreaterThan(v, w)

RECURSIVE insert(_, _)
\* The inner loop of the insertion sort: x, behind the sorted data, is
\* swapped with the element before it as long as it is less than it.
insert(data, x) ==
  IF data = << >> \/ ~less(x, data[Len(data)]) THEN Append(data, x)
  ELSE Append(insert(SubSeq(data, 1, Len(data) - 1), x), data[Len(data)])

RECURSIVE insertionSort(_)
\* sort.Slice on a slice of at most 12 elements: an insertion sort.
insertionSort(data) ==
  IF data = << >> THEN << >>
  ELSE insert(insertionSort(SubSeq(data, 1, Len(data) - 1)), data[Len(data)])

\* A goroutine that is given no version.
LatestNone(semvers) == << >>

\* The versions whose platforms the background goroutine syncs.
Latest(semvers) == IF Len(semvers) >= 10 THEN SubSeq(semvers, 1, 10) ELSE semvers

\* A typed bucket that is never found.
TypedNeverFound(d) == FALSE

\* tx.Bucket(domain).Bucket(host/namespace/type) # nil.
TypedFound(d) == d.typed

NoOutcome == [status |-> "none", http |-> 0, versions |-> {},
              platforms |-> << >>, archives |-> << >>, last |-> {},
              all |-> {}, any |-> FALSE]

\* diagnoseError: 400 for an error of binding the request, else 500.
diagnoseError(type) == IF type = "bind" THEN 400 ELSE 500

\* The status of the response to a request whose handler returned this:
\* 200 without an error; with one, getHttpError takes the status of a
\* public error, and the errors of the metadata service, made by
\* errors.New and fmt.Errorf, are not public and carry none, so that
\* diagnoseError gives it.
getHttpError(status) == IF status = "ok" THEN 200 ELSE diagnoseError("private")

\* A field of an unmarshaled Platform: the empty string, a text of no
\* parts, when the JSON has no such key.
Field(pf, key) == IF key \in DOMAIN pf THEN pf[key] ELSE << >>

\* Handler.GetMetadata, one entry of Archives.
ArchiveName(pf) == <<Field(pf, "os"), "_", Field(pf, "arch")>>
ArchiveEntry(pf) ==
  [url |-> <<"download/", Field(pf, "filename")>>,
   hashes |-> IF Field(pf, "shasum") # << >> THEN <<<<"zh:", Field(pf, "shasum")>>>>
              ELSE << >>]

RECURSIVE ArchivesFirstWins(_)
\* A loop that keeps the entry a name already has.
ArchivesFirstWins(platforms) ==
  IF platforms = << >> THEN << >>
  ELSE LET rest == ArchivesFirstWins(Tail(platforms))
           pf == Head(platforms) IN
         [name \in DOMAIN rest \cup {ArchiveName(pf)} |->
            IF name = ArchiveName(pf) THEN ArchiveEntry(pf) ELSE rest[name]]

RECURSIVE Archives(_)
\* Handler.GetMetadata, the loop over mr.Platforms: each platform sets the
\* entry of its name in the map, over the entry an earlier one has set.
Archives(platforms) ==
  IF platforms = << >> THEN << >>
  ELSE LET n == Len(platforms)
           rest == Archives(SubSeq(platforms, 1, n - 1))
           pf == platforms[n] IN
         [name \in DOMAIN rest \cup {ArchiveName(pf)} |->
            IF name = ArchiveName(pf) THEN ArchiveEntry(pf) ELSE rest[name]]

\* The listing the upstream publishes when the service starts.
FirstListing == Listing(<<"1.0.0", "2.0.0">>)

\* The database file outlives the process: it holds the bucket a sync of an
\* earlier run has written from the listing.
EarlierDB(z) ==
  [typed |-> TRUE, modified |-> FormatRFC3339(0, z),
   versions |-> Upsert(NoBuckets, FirstListing.entries),
   platforms |-> NoBuckets]

\* The database an earlier run has written when the upstream listed version
\* 1.0.0 alone.
StaleDB ==
  [typed |-> TRUE, modified |-> FormatRFC3339(0, 0),
   versions |-> Upsert(NoBuckets, Listing(<<"1.0.0">>).entries),
   platforms |-> NoBuckets]

\* The service has started: no goroutine has called it.
MetaStart ==
  /\ mpc = [p \in MetaProcs |-> "idle"]
  /\ mop = [p \in MetaProcs |-> "none"]
  /\ mres = [p \in MetaProcs |-> NoOutcome]
  /\ mjob = [p \in MetaProcs |-> << >>]
  /\ mver = [p \in MetaProcs |-> NoVersion]
  /\ merr = [p \in MetaProcs |-> FALSE]
  /\ mups = [p \in MetaProcs |-> 0]
  /\ mref = [p \in MetaProcs |-> FALSE]
  /\ syncing = {}
  /\ writer = NoProc
  /\ tx = NoTx
  /\ ops = 0

\* The service has started on a database that is empty or was written by an
\* earlier run.
MetaInit ==
  /\ MetaStart
  /\ now = 1
  /\ zone \in ZoneOffsets
  /\ up = [body |-> FirstListing, modified |-> 0, gen |-> 1]
  /\ \/ /\ db = EmptyDB
        /\ seen = NoGen
        /\ synced = [any |-> FALSE, last |-> {}, all |-> {}]
     \/ /\ db = EarlierDB(zone)
        /\ seen = up.gen
        /\ synced = [any |-> TRUE, last |-> Stored(FirstListing.entries),
                     all |-> Stored(FirstListing.entries)]

\* The service has started on an empty database.
RetryInit ==
  /\ MetaStart
  /\ now = 1
  /\ zone = 0
  /\ up = [body |-> FirstListing, modified |-> 0, gen |-> 1]
  /\ db = EmptyDB
  /\ seen = NoGen
  /\ synced = [any |-> FALSE, last |-> {}, all |-> {}]

\* The service has started on the database of an earlier run, and the
\* upstream has published version 2.0.0 since.
StaleInit ==
  /\ MetaStart
  /\ now = 2
  /\ zone = 0
  /\ up = [body |-> FirstListing, modified |-> 1, gen |-> 2]
  /\ db = StaleDB
  /\ seen = 1
  /\ synced = [any |-> TRUE, last |-> {"1.0.0"}, all |-> {"1.0.0"}]

\* A goroutine calls GetVersions or Sync.  Goroutines are interchangeable, so
\* they make their first calls in the order of their numbers.
MetaCall(p, op) ==
  /\ p \in Syncers
  /\ mpc[p] \in {"idle", "done"}
  /\ \A q \in Syncers : q < p => mpc[q] # "idle"
  /\ ops < MaxOps
  /\ ops' = ops + 1
  /\ mop' = [mop EXCEPT ![p] = op]
  /\ mpc' = [mpc EXCEPT ![p] = IF op = "GetVersions" THEN "query" ELSE "sync"]
  /\ mres' = [mres EXCEPT ![p] = NoOutcome]
  /\ merr' = [merr EXCEPT ![p] = FALSE]
  /\ mups' = [mups EXCEPT ![p] = 0]
  /\ mref' = [mref EXCEPT ![p] = db.typed]
  /\ UNCHANGED notMeta
  /\ UNCHANGED <<mjob, mver, syncing, writer, tx, db, now, zone, up, seen,
                 synced>>

\* What an operation returns, with the syncs that had committed by then.
Outcome(status, versions) ==
  [status |-> status, http |-> getHttpError(status), versions |-> versions,
   platforms |-> << >>, archives |-> << >>, last |-> synced.last, all |-> synced.all, any |-> synced.any]

\* The View of Query the operation runs: of all versions for GetVersions,
\* of one version for GetVersion and GetPlatform.
QueryPc(p) == IF mop[p] = "GetVersions" THEN "query" ELSE "query_version"

\* Query of all versions, the View: the names of the version buckets when
\* the provider bucket exists, ErrTypedNotFound when not.
QueryView(p) ==
  /\ mpc[p] = "query"
  /\ IF TypedFound(View(db, tx))
     THEN /\ mres' = [mres EXCEPT ![p] =
                        Outcome("ok", DOMAIN View(db, tx).versions)]
          /\ mpc' = [mpc EXCEPT ![p] = "done"]
     ELSE /\ mpc' = [mpc EXCEPT ![p] = "miss"]
          /\ UNCHANGED mres
  /\ UNCHANGED notMeta
  /\ UNCHANGED <<mop, mjob, mver, merr, mups, mref, syncing, writer, tx, db, now,
                 zone, up, seen, synced, ops>>

\* Query on ErrTypedNotFound: sleep and query again when the key is being
\* synced, else call syncVersions.
QueryMiss(p) ==
  /\ mpc[p] = "miss"
  /\ mpc' = [mpc EXCEPT ![p] =
               IF TypedKey \in syncing THEN QueryPc(p) ELSE "sv_check"]
  /\ UNCHANGED notMeta
  /\ UNCHANGED <<mop, mres, mjob, mver, merr, mups, mref, syncing, writer, tx, db,
                 now, zone, up, seen, synced, ops>>

\* service.Sync, the View: syncVersions for the bucket of the provider when
\* there is one.
SyncView(p) ==
  /\ mpc[p] = "sync"
  /\ IF TypedFound(View(db, tx))
     THEN /\ mpc' = [mpc EXCEPT ![p] = "sv_check"]
          /\ UNCHANGED mres
     ELSE /\ mres' = [mres EXCEPT ![p] = Outcome("ok", {})]
          /\ mpc' = [mpc EXCEPT ![p] = "done"]
  /\ UNCHANGED notMeta
  /\ UNCHANGED <<mop, mjob, mver, merr, mups, mref, syncing, writer, tx, db, now,
                 zone, up, seen, synced, ops>>

\* A sync has returned err to its caller: Query queries again on nil and
\* returns the error otherwise; Sync returns it.
Requeries(p, err) ==
  mop[p] \in {"GetVersions", "GetVersion", "GetPlatform"} /\ ~err
SvReturned(p, err) ==
  IF Requeries(p, err) THEN mres[p]
  ELSE Outcome(IF err THEN "error" ELSE "ok", {})
SvReturnedPc(p, err) == IF Requeries(p, err) THEN QueryPc(p) ELSE "done"

\* syncVersions: if s.isSyncing(key) { return nil }.
SvCheck(p) ==
  /\ mpc[p] = "sv_check"
  /\ IF TypedKey \in syncing
     THEN /\ mres' = [mres EXCEPT ![p] = SvReturned(p, FALSE)]
          /\ mpc' = [mpc EXCEPT ![p] = SvReturnedPc(p, FALSE)]
     ELSE /\ mpc' = [mpc EXCEPT ![p] = "sv_store"]
          /\ UNCHANGED mres
  /\ UNCHANGED notMeta
  /\ UNCHANGED <<mop, mjob, mver, merr, mups, mref, syncing, writer, tx, db, now,
                 zone, up, seen, synced, ops>>

\* syncVersions: s.syncing.Store(key, struct{}{}).
SvStore(p) ==
  /\ mpc[p] = "sv_store"
  /\ syncing' = syncing \cup {TypedKey}
  /\ mpc' = [mpc EXCEPT ![p] = "sv_begin"]
  /\ UNCHANGED notMeta
  /\ UNCHANGED <<mop, mres, mjob, mver, merr, mups, mref, writer, tx, db, now,
                 zone, up, seen, synced, ops>>

\* syncVersions enters boltDriver.Update, which admits one writer, and sends
\* the request for the listing.
SvBegin(p) ==
  /\ mpc[p] = "sv_begin"
  /\ Begin(writer)
  /\ writer' = p
  /\ mups' = [mups EXCEPT ![p] = @ + 1]
  /\ mpc' = [mpc EXCEPT ![p] = "sv_inflight"]
  /\ UNCHANGED notMeta
  /\ UNCHANGED <<mop, mres, mjob, mver, merr, mref, syncing, tx, db, now, zone,
                 up, seen, synced, ops>>

\* The answer to the request for the listing, inside the Update.  A failed
\* request rolls the transaction back.  Else the transaction has the
\* entries of the body to put, none on 304.
SvResponse(p) ==
  /\ mpc[p] = "sv_inflight"
  /\ \/ /\ merr' = [merr EXCEPT ![p] = TRUE]
        /\ mjob' = [mjob EXCEPT ![p] = << >>]
        /\ writer' = NoProc
        /\ mpc' = [mpc EXCEPT ![p] = "sv_return"]
        /\ db' = Rollback(db)
        /\ UNCHANGED tx
     \/ LET r == ProviderGetVersions(ParseRFC3339(db.modified), up) IN
          /\ tx' = [open |-> TRUE, nil |-> r.nil, gen |-> up.gen,
                    entries |-> r.entries, todo |-> r.order, stored |-> << >>,
                    versions |-> db.versions]
          /\ mpc' = [mpc EXCEPT ![p] = "sv_put"]
          /\ UNCHANGED <<merr, mjob, writer, db>>
  /\ UNCHANGED notMeta
  /\ UNCHANGED <<mop, mres, mver, mups, mref, syncing, now, zone, up, seen,
                 synced, ops>>

\* The loop over the "versions" of the body, one entry: the entry is put in
\* the transaction and its version appended to `versions`, or the bucket
\* cannot be written and the transaction is rolled back.
SvPut(p) ==
  /\ mpc[p] = "sv_put"
  /\ tx.todo # << >>
  /\ \/ /\ tx' = [tx EXCEPT !.todo = Tail(@),
                              !.versions = Upsert(@, {Head(tx.todo)}),
                              !.stored =
                                IF Head(tx.todo).version = NoVersion THEN @
                                ELSE Append(@, Head(tx.todo).version)]
        /\ UNCHANGED <<mpc, merr, writer, db>>
     \/ /\ Head(tx.todo).version # NoVersion
        /\ tx' = NoTx
        /\ db' = Rollback(db)
        /\ merr' = [merr EXCEPT ![p] = TRUE]
        /\ writer' = NoProc
        /\ mpc' = [mpc EXCEPT ![p] = "sv_return"]
  /\ UNCHANGED notMeta
  /\ UNCHANGED <<mop, mres, mjob, mver, mups, mref, syncing, now, zone, up,
                 seen, synced, ops>>

\* The end of the Update: "modified" is put and the transaction commits;
\* then the stored versions are parsed and sorted.
SvCommit(p) ==
  /\ mpc[p] = "sv_put"
  /\ tx.todo = << >>
  /\ db' = [db EXCEPT !.typed = TRUE,
                      !.modified = FormatRFC3339(now, zone),
                      !.versions = tx.versions]
  /\ seen' = IF tx.nil THEN seen ELSE tx.gen
  /\ synced' = IF tx.nil THEN synced
               ELSE [any |-> TRUE, last |-> Stored(tx.entries),
                     all |-> synced.all \cup Stored(tx.entries)]
  /\ mjob' = [mjob EXCEPT ![p] =
                IF tx.nil THEN << >>
                ELSE insertionSort([i \in DOMAIN tx.stored |->
                                      NewVersion(tx.stored[i])])]
  /\ tx' = NoTx
  /\ writer' = NoProc
  /\ mpc' = [mpc EXCEPT ![p] = "sv_return"]
  /\ UNCHANGED notMeta
  /\ UNCHANGED <<mop, mres, mver, merr, mups, mref, syncing, now, zone, up,
                 ops>>

\* The end of syncVersions: with versions stored, a goroutine is started to
\* sync the platforms of the latest of them; the deferred
\* s.syncing.Delete(key) runs and syncVersions returns.
SvReturn(p) ==
  /\ mpc[p] = "sv_return"
  /\ syncing' = Delete(syncing, TypedKey)
  /\ mres' = [mres EXCEPT ![p] = SvReturned(p, merr[p])]
  /\ IF mjob[p] = << >>
     THEN /\ mpc' = [mpc EXCEPT ![p] = SvReturnedPc(p, merr[p])]
          /\ UNCHANGED mjob
     ELSE \E b \in Bgs :
            /\ mpc[b] = "idle"
            /\ \A c \in Bgs : c < b => mpc[c] # "idle"
            /\ mpc' = [mpc EXCEPT ![p] = SvReturnedPc(p, merr[p]),
                                  ![b] = "bg_next"]
            /\ mjob' = [mjob EXCEPT ![p] = << >>, ![b] = Latest(mjob[p])]
  /\ UNCHANGED notMeta
  /\ UNCHANGED <<mop, mver, merr, mups, mref, writer, tx, db, now, zone, up, seen, synced, ops>>

\* The background goroutine takes the next version, passing over a nil, or
\* ends.
BgNext(b) ==
  /\ mpc[b] = "bg_next"
  /\ IF mjob[b] = << >>
     THEN /\ mpc' = [mpc EXCEPT ![b] = "idle"]
          /\ mver' = [mver EXCEPT ![b] = NoVersion]
          /\ mups' = [mups EXCEPT ![b] = 0]
          /\ UNCHANGED mjob
     ELSE /\ mpc' = [mpc EXCEPT ![b] =
                        IF Head(mjob[b]) = Nil THEN "bg_next" ELSE "sps_check"]
          /\ mver' = [mver EXCEPT ![b] =
                         IF Head(mjob[b]) = Nil THEN @ ELSE Head(mjob[b])]
          /\ mjob' = [mjob EXCEPT ![b] = Tail(mjob[b])]
          /\ UNCHANGED mups
  /\ merr' = [merr EXCEPT ![b] = FALSE]
  /\ UNCHANGED notMeta
  /\ UNCHANGED <<mop, mres, mref, syncing, writer, tx, db, now, zone, up,
                 seen, synced, ops>>

\* syncPlatforms has returned err: to the loop of the background goroutine,
\* which goes on, or to Query.
SpsReturnedPc(b, err) == IF b \in Bgs THEN "bg_next" ELSE SvReturnedPc(b, err)
SpsReturned(b, err) == IF b \in Bgs THEN mres[b] ELSE SvReturned(b, err)

\* syncPlatform is called by syncPlatforms, except for GetPlatform, where
\* Query calls it.
InSyncPlatforms(b) == b \in Bgs \/ mop[b] = "GetVersion"
SpReturnedPc(b, err) ==
  IF InSyncPlatforms(b) THEN "sps_delete" ELSE SvReturnedPc(b, err)
SpReturned(b, err) ==
  IF InSyncPlatforms(b) THEN mres[b] ELSE SvReturned(b, err)

\* syncPlatforms: if s.isSyncing(key) { return nil }.
SpsCheck(b) ==
  /\ mpc[b] = "sps_check"
  /\ IF VersionKey(mver[b]) \in syncing
     THEN /\ mpc' = [mpc EXCEPT ![b] = SpsReturnedPc(b, FALSE)]
          /\ mres' = [mres EXCEPT ![b] = SpsReturned(b, FALSE)]
     ELSE /\ mpc' = [mpc EXCEPT ![b] = "sps_store"]
          /\ UNCHANGED mres
  /\ UNCHANGED notMeta
  /\ UNCHANGED <<mop, mjob, mver, merr, mups, mref, syncing, writer, tx, db,
                 now, zone, up, seen, synced, ops>>

\* syncPlatforms: s.syncing.Store(key, struct{}{}).
SpsStore(b) ==
  /\ mpc[b] = "sps_store"
  /\ syncing' = syncing \cup {VersionKey(mver[b])}
  /\ mpc' = [mpc EXCEPT ![b] = "sps_view"]
  /\ UNCHANGED notMeta
  /\ UNCHANGED <<mop, mres, mjob, mver, merr, mups, mref, writer, tx, db, now,
                 zone, up, seen, synced, ops>>

\* The platforms the stored version declares.
StoredPlatforms(d, v) ==
  IF d.typed /\ v \in DOMAIN d.versions THEN d.versions[v].platforms ELSE << >>

\* syncPlatforms, the View: syncPlatform is called for the platform the
\* stored version declares; with none declared syncPlatforms returns.
SpsView(b) ==
  /\ mpc[b] = "sps_view"
  /\ mpc' = [mpc EXCEPT ![b] =
               IF StoredPlatforms(View(db, tx), mver[b]) = << >> THEN "sps_delete"
               ELSE "sp_check"]
  /\ UNCHANGED notMeta
  /\ UNCHANGED <<mop, mres, mjob, mver, merr, mups, mref, syncing, writer, tx, db,
                 now, zone, up, seen, synced, ops>>

\* syncPlatform: if s.isSyncing(key) { return nil }.
SpCheck(b) ==
  /\ mpc[b] = "sp_check"
  /\ IF PlatformKey(mver[b], Linux) \in syncing
     THEN /\ mpc' = [mpc EXCEPT ![b] = SpReturnedPc(b, FALSE)]
          /\ mres' = [mres EXCEPT ![b] = SpReturned(b, FALSE)]
     ELSE /\ mpc' = [mpc EXCEPT ![b] = "sp_store"]
          /\ UNCHANGED mres
  /\ UNCHANGED notMeta
  /\ UNCHANGED <<mop, mjob, mver, merr, mups, mref, syncing, writer, tx, db,
                 now, zone, up, seen, synced, ops>>

\* syncPlatform: s.syncing.Store(key, struct{}{}).
SpStore(b) ==
  /\ mpc[b] = "sp_store"
  /\ syncing' = syncing \cup {PlatformKey(mver[b], Linux)}
  /\ mpc' = [mpc EXCEPT ![b] = "sp_begin"]
  /\ UNCHANGED notMeta
  /\ UNCHANGED <<mop, mres, mjob, mver, merr, mups, mref, writer, tx, db, now,
                 zone, up, seen, synced, ops>>

\* syncPlatform enters boltDriver.Update: without the bucket of the version
\* it returns nil, else it sends the request for the platform.
SpBegin(b) ==
  /\ mpc[b] = "sp_begin"
  /\ Begin(writer)
  /\ IF VersionFound(db, mver[b])
     THEN /\ writer' = b
          /\ mups' = [mups EXCEPT ![b] = @ + 1]
          /\ mpc' = [mpc EXCEPT ![b] = "sp_inflight"]
     ELSE /\ mpc' = [mpc EXCEPT ![b] = "sp_delete"]
          /\ UNCHANGED <<writer, mups>>
  /\ UNCHANGED notMeta
  /\ UNCHANGED <<mop, mres, mjob, mver, merr, mref, syncing, tx, db, now,
                 zone, up, seen, synced, ops>>

\* The platform bucket of a version, as CreateBucketIfNotExists gives it.
PlatformBucket(d, v) ==
  IF v \in DOMAIN d.platforms THEN d.platforms[v]
  ELSE [data |-> NoData, modified |-> NoStamp]

\* The answer to the request for the platform and the rest of the Update.  A
\* failed request rolls the transaction back.  On 304 only "modified" is
\* put, otherwise "data" and "modified".
SpResponse(b) ==
  /\ mpc[b] = "sp_inflight"
  /\ writer' = NoProc
  /\ mpc' = [mpc EXCEPT ![b] = "sp_delete"]
  /\ \/ /\ merr' = [merr EXCEPT ![b] = TRUE]
        /\ db' = Rollback(db)
     \/ LET v == mver[b]
            bucket == PlatformBucket(db, v)
            r == ProviderGetPlatform(v, ParseRFC3339(bucket.modified), up)
            put == [data |-> IF r.nil THEN bucket.data ELSE r.object,
                    modified |-> FormatRFC3339(now, zone)]
        IN  /\ db' = [db EXCEPT !.platforms =
                         [w \in DOMAIN db.platforms \cup {v} |->
                            IF w = v THEN put ELSE db.platforms[w]]]
            /\ UNCHANGED merr
  /\ UNCHANGED notMeta
  /\ UNCHANGED <<mop, mres, mjob, mver, mups, mref, syncing, tx, now, zone,
                 up, seen, synced, ops>>

\* syncPlatform returns: the deferred s.syncing.Delete(key).
SpDelete(b) ==
  /\ mpc[b] = "sp_delete"
  /\ syncing' = Delete(syncing, PlatformKey(mver[b], Linux))
  /\ mpc' = [mpc EXCEPT ![b] = SpReturnedPc(b, merr[b])]
  /\ mres' = [mres EXCEPT ![b] = SpReturned(b, merr[b])]
  /\ UNCHANGED notMeta
  /\ UNCHANGED <<mop, mjob, mver, merr, mups, mref, writer, tx, db, now, zone,
                 up, seen, synced, ops>>

\* syncPlatforms returns: the deferred s.syncing.Delete(key).
SpsDelete(b) ==
  /\ mpc[b] = "sps_delete"
  /\ syncing' = Delete(syncing, VersionKey(mver[b]))
  /\ mpc' = [mpc EXCEPT ![b] = SpsReturnedPc(b, merr[b])]
  /\ mres' = [mres EXCEPT ![b] = SpsReturned(b, merr[b])]
  /\ UNCHANGED notMeta
  /\ UNCHANGED <<mop, mjob, mver, merr, mups, mref, writer, tx, db, now, zone,
                 up, seen, synced, ops>>

\* An hour passes.
Tick ==
  /\ now < MaxTime
  /\ now' = now + 1
  /\ UNCHANGED notMeta
  /\ UNCHANGED <<mpc, mop, mres, mjob, mver, merr, mups, mref, syncing,
                 writer, tx, db, zone, up, seen, synced, ops>>

\* The upstream publishes another listing.
UpstreamChange ==
  /\ up.gen <= MaxChanges
  /\ \E b \in UpstreamBodies \ {up.body} :
       up' = [body |-> b, modified |-> now, gen |-> up.gen + 1]
  /\ UNCHANGED notMeta
  /\ UNCHANGED <<mpc, mop, mres, mjob, mver, merr, mups, mref, syncing,
                 writer, tx, db, now, zone, seen, synced, ops>>

\* The versions asked for: one the upstream lists with a platform and one
\* it does not list.
AskedVersions == {"2.0.0", "3.0.0"}

\* A goroutine calls GetVersion or GetPlatform (of linux/amd64) for a
\* version; "syncPlatform" is the call of service.syncPlatform itself.
MetaCallVersion(p, op, v) ==
  /\ p \in Syncers
  /\ mpc[p] \in {"idle", "done"}
  /\ \A q \in Syncers : q < p => mpc[q] # "idle"
  /\ ops < MaxOps
  /\ ops' = ops + 1
  /\ mop' = [mop EXCEPT ![p] = op]
  /\ mver' = [mver EXCEPT ![p] = v]
  /\ mpc' = [mpc EXCEPT ![p] =
               IF op = "syncPlatform" THEN "sp_check" ELSE "query_version"]
  /\ mres' = [mres EXCEPT ![p] = NoOutcome]
  /\ merr' = [merr EXCEPT ![p] = FALSE]
  /\ mups' = [mups EXCEPT ![p] = 0]
  /\ mref' = [mref EXCEPT ![p] = db.typed]
  /\ UNCHANGED notMeta
  /\ UNCHANGED <<mjob, syncing, writer, tx, db, now, zone, up, seen, synced>>

\* What the View of Query finds for one version: an error of Query, or the
\* version with the data of its platform buckets.
QueryOne(d, op, v) ==
  IF ~TypedFound(d) THEN [err |-> "ErrTypedNotFound", platforms |-> << >>]
  ELSE IF v \notin DOMAIN d.versions
  THEN [err |-> "ErrVersionNotFound", platforms |-> << >>]
  ELSE IF op = "GetPlatform"
  THEN IF v \notin DOMAIN d.platforms
       THEN [err |-> "ErrPlatformNotFound", platforms |-> << >>]
       ELSE IF d.platforms[v].data = NoData
       THEN [err |-> "error unmarshaling platform", platforms |-> << >>]
       ELSE [err |-> "nil", platforms |-> <<d.platforms[v].data>>]
  ELSE LET declared == Declared(d, v) IN
       IF declared = << >> THEN [err |-> "nil", platforms |-> << >>]
       ELSE IF v \notin DOMAIN d.platforms
       THEN [err |-> "ErrPlatformsIncomplete", platforms |-> << >>]
       ELSE IF d.platforms[v].data = NoData
       THEN [err |-> "error unmarshaling platform", platforms |-> << >>]
       ELSE [err |-> "nil",
             platforms |-> declared \o <<d.platforms[v].data>>]

\* The switch of Query on the error of the View, with a case that syncs the
\* versions when the version was not found.
SwitchSyncingVersions(err) ==
  CASE err \in {"ErrTypedNotFound", "ErrVersionNotFound"} -> "miss"
    [] err = "ErrPlatformNotFound" -> "platform_miss"
    [] err = "ErrPlatformsIncomplete" -> "platforms_miss"
    [] OTHER -> "done"

\* The switch of Query on the error of the View: a case for each of
\* ErrPlatformNotFound, ErrPlatformsIncomplete and ErrTypedNotFound; any
\* other error, and nil, is returned.
Switch(err) ==
  CASE err = "ErrTypedNotFound" -> "miss"
    [] err = "ErrPlatformNotFound" -> "platform_miss"
    [] err = "ErrPlatformsIncomplete" -> "platforms_miss"
    [] OTHER -> "done"

\* Query of one version, the View, and the switch on its error; for
\* GetVersion, Handler.GetMetadata makes the response from the version.
QueryVersion(p) ==
  /\ mpc[p] = "query_version"
  /\ LET q == QueryOne(View(db, tx), mop[p], mver[p]) IN
       /\ mpc' = [mpc EXCEPT ![p] = Switch(q.err)]
       /\ mres' = [mres EXCEPT ![p] =
                     IF q.err = "nil"
                     THEN [Outcome("ok", {mver[p]}) EXCEPT
                             !.platforms = q.platforms,
                             !.archives =
                               IF mop[p] = "GetVersion"
                               THEN Archives(q.platforms) ELSE << >>]
                     ELSE IF q.err \in {"ErrVersionNotFound",
                                        "error unmarshaling platform"}
                     THEN Outcome(q.err, {})
                     ELSE @]
  /\ UNCHANGED notMeta
  /\ UNCHANGED <<mop, mjob, mver, merr, mups, mref, syncing, writer, tx, db,
                 now, zone, up, seen, synced, ops>>

\* Query on ErrPlatformNotFound: sleep and query again when the key of the
\* platform is being synced, else call syncPlatform.
PlatformMiss(p) ==
  /\ mpc[p] = "platform_miss"
  /\ mpc' = [mpc EXCEPT ![p] =
               IF PlatformKey(mver[p], Linux) \in syncing THEN QueryPc(p)
               ELSE "sp_check"]
  /\ UNCHANGED notMeta
  /\ UNCHANGED <<mop, mres, mjob, mver, merr, mups, mref, syncing, writer, tx,
                 db, now, zone, up, seen, synced, ops>>

\* A Query that on ErrPlatformsIncomplete only sleeps and queries again.
PlatformsMissSleeps(p) ==
  /\ mpc[p] = "platforms_miss"
  /\ mpc' = [mpc EXCEPT ![p] = QueryPc(p)]
  /\ UNCHANGED notMeta
  /\ UNCHANGED <<mop, mres, mjob, mver, merr, mups, mref, syncing, writer, tx,
                 db, now, zone, up, seen, synced, ops>>

\* Query on ErrPlatformsIncomplete: sleep and query again when the key of
\* the version is being synced, else call syncPlatforms.
PlatformsMiss(p) ==
  /\ mpc[p] = "platforms_miss"
  /\ mpc' = [mpc EXCEPT ![p] =
               IF VersionKey(mver[p]) \in syncing THEN QueryPc(p)
               ELSE "sps_check"]
  /\ UNCHANGED notMeta
  /\ UNCHANGED <<mop, mres, mjob, mver, merr, mups, mref, syncing, writer, tx,
                 db, now, zone, up, seen, synced, ops>>

MetaNext ==
  \/ \E p \in Syncers :
       \/ \E op \in {"GetVersions", "Sync"} : MetaCall(p, op)
       \/ QueryView(p)
       \/ QueryMiss(p)
       \/ SyncView(p)
       \/ SvCheck(p)
       \/ SvStore(p)
       \/ SvBegin(p)
       \/ SvResponse(p)
       \/ SvPut(p)
       \/ SvCommit(p)
       \/ SvReturn(p)
  \/ \E b \in Bgs :
       \/ BgNext(b)
       \/ SpsCheck(b)
       \/ SpsStore(b)
       \/ SpsView(b)
       \/ SpCheck(b)
       \/ SpStore(b)
       \/ SpBegin(b)
       \/ SpResponse(b)
       \/ SpDelete(b)
       \/ SpsDelete(b)
  \/ Tick
  \/ UpstreamChange

\* The reads of one version, with the syncs they and their background
\* goroutines run.
ReadNext ==
  \/ \E p \in Syncers :
       \/ \E op \in {"GetVersion", "GetPlatform", "syncPlatform"} :
            \E v \in AskedVersions : MetaCallVersion(p, op, v)
       \/ QueryVersion(p)
       \/ QueryMiss(p)
       \/ PlatformMiss(p)
       \/ PlatformsMiss(p)
       \/ SvCheck(p)
       \/ SvStore(p)
       \/ SvBegin(p)
       \/ SvResponse(p)
       \/ SvPut(p)
       \/ SvCommit(p)
       \/ SvReturn(p)
  \/ \E b \in MetaProcs :
       \/ BgNext(b)
       \/ SpsCheck(b)
       \/ SpsStore(b)
       \/ SpsView(b)
       \/ SpCheck(b)
       \/ SpStore(b)
       \/ SpBegin(b)
       \/ SpResponse(b)
       \/ SpDelete(b)
       \/ SpsDelete(b)

\* The reads of a version the store of an earlier run does not have, and
\* the syncs of the provider.
StaleNext ==
  \/ \E p \in Syncers :
       \/ \E op \in {"GetVersion", "GetPlatform"} :
            MetaCallVersion(p, op, "2.0.0")
       \/ MetaCall(p, "Sync")
       \/ QueryVersion(p)
       \/ PlatformMiss(p)
       \/ PlatformsMiss(p)
       \/ SyncView(p)
       \/ SvCheck(p)
       \/ SvStore(p)
       \/ SvBegin(p)
       \/ SvResponse(p)
       \/ SvPut(p)
       \/ SvCommit(p)
       \/ SvReturn(p)
  \/ \E b \in MetaProcs :
       \/ BgNext(b)
       \/ SpsCheck(b)
       \/ SpsStore(b)
       \/ SpsView(b)
       \/ SpCheck(b)
       \/ SpStore(b)
       \/ SpBegin(b)
       \/ SpResponse(b)
       \/ SpDelete(b)
       \/ SpsDelete(b)

\* Every step of a goroutine of the metadata service after its call.
MetaStep(p) ==
  \/ QueryView(p) \/ QueryVersion(p)
  \/ QueryMiss(p) \/ PlatformMiss(p) \/ PlatformsMiss(p)
  \/ SvCheck(p) \/ SvStore(p) \/ SvBegin(p) \/ SvResponse(p) \/ SvPut(p)
  \/ SvCommit(p) \/ SvReturn(p)
  \/ BgNext(p)
  \/ SpsCheck(p) \/ SpsStore(p) \/ SpsView(p) \/ SpsDelete(p)
  \/ SpCheck(p) \/ SpStore(p) \/ SpBegin(p) \/ SpResponse(p) \/ SpDelete(p)

\* The reads of a provider that is not in the store, with the syncs they
\* run: the first caller reads a version or a platform, the others read the
\* versions.
RetryNext ==
  \/ \E op \in {"GetVersion", "GetPlatform"} :
       MetaCallVersion(1, op, "2.0.0")
  \/ \E p \in Syncers \ {1} : MetaCall(p, "GetVersions")
  \/ \E p \in MetaProcs : MetaStep(p)

\* The goroutines that have stored a key in service.syncing and have not
\* yet run their deferred Delete of it.
Synchronizers(k) ==
  {p \in MetaProcs :
     \/ k = TypedKey /\ mpc[p] \in {"sv_begin", "sv_inflight", "sv_put", "sv_return"}
     \/ k = VersionKey(mver[p]) /\ InSyncPlatforms(p) /\
          mpc[p] \in {"sps_view", "sp_check", "sp_store", "sp_begin",
                      "sp_inflight", "sp_delete", "sps_delete"}
     \/ k = PlatformKey(mver[p], Linux) /\
          mpc[p] \in {"sp_begin", "sp_inflight", "sp_delete"}}

SyncKeys ==
  {TypedKey} \cup {VersionKey(v) : v \in {"1.0.0", "2.0.0"}}
    \cup {PlatformKey(v, Linux) : v \in {"1.0.0", "2.0.0"}}

(***************************************************************************)
(* The download request: the archive segment of the route, its validation  *)
(* and the handler.  A string is the sequence of its characters; the words *)
(* of the fixed prefix are taken whole.                                    *)
(***************************************************************************)
MaxRequests == 1

Lower == {"a", "b", "f", "i", "l", "p", "z"}
Upper == {"A", "L"}
Digits == {"1", "2", "6"}

\* \w
WordClass == Lower \cup Upper \cup Digits \cup {"_"}
\* [\w|\\.]
VersionClass == WordClass \cup {"|", "\\", "."}
\* [a-z]
OSClass == Lower
\* [a-z0-9] taken for [a-zA-Z0-9]
ArchClassAnyCase == Lower \cup Upper \cup Digits
\* [a-z0-9]
ArchClass == Lower \cup Digits

Prefix == <<"terraform", "-", "provider", "-">>
Zip == <<".", "z", "i", "p">>
Literal(text) == [kind |-> "literal", text |-> text, class |-> {}]
Group(class) == [kind |-> "group", text |-> << >>, class |-> class]

\* ^terraform-provider-(\w+)_([\w|\\.]+)_([a-z]+)_([a-z0-9]+)\.zip$
regexValidArchive ==
  <<Literal(Prefix), Group(WordClass), Literal(<<"_">>), Group(VersionClass),
    Literal(<<"_">>), Group(OSClass), Literal(<<"_">>), Group(ArchClass),
    Literal(Zip)>>

HasPrefix(s, t) == Len(s) >= Len(t) /\ SubSeq(s, 1, Len(t)) = t
Drop(s, n) == SubSeq(s, n + 1, Len(s))

RECURSIVE Submatches(_, _)
\* The ways the whole of s matches the pattern, each as the texts of its
\* groups.
Submatches(pattern, s) ==
  IF pattern = << >> THEN (IF s = << >> THEN {<< >>} ELSE {})
  ELSE LET item == Head(pattern) IN
    IF item.kind = "literal"
    THEN IF HasPrefix(s, item.text)
         THEN Submatches(Tail(pattern), Drop(s, Len(item.text)))
         ELSE {}
    ELSE UNION {{<<SubSeq(s, 1, n)>> \o m :
                   m \in Submatches(Tail(pattern), Drop(s, n))} :
                n \in {k \in 1..Len(s) : \A i \in 1..k : s[i] \in item.class}}

RECURSIVE Preferred(_, _)
\* Greedy groups: the match whose first group is longest, and so on.
Preferred(ms, g) ==
  IF g > 4 THEN ms
  ELSE LET longest == {m \in ms : \A o \in ms : Len(o[g]) <= Len(m[g])} IN
         Preferred(longest, g + 1)

\* regexp.FindStringSubmatch: nil without a match, else the string and the
\* texts of the four groups.
FindStringSubmatch(pattern, s) ==
  LET ms == Submatches(pattern, s) IN
    IF ms = {} THEN << >>
    ELSE <<s>> \o (CHOOSE m \in Preferred(ms, 1) : TRUE)

\* DownloadArchiveRequest.Validate.
Validate(type, archive) ==
  LET ps == FindStringSubmatch(regexValidArchive, archive) IN
    IF Len(ps) # 5 THEN [err |-> "invalid archive", version |-> << >>,
                         os |-> << >>, arch |-> << >>]
    ELSE IF type # ps[2] THEN [err |-> "invalid type", version |-> << >>,
                               os |-> << >>, arch |-> << >>]
    ELSE [err |-> "", version |-> ps[3], os |-> ps[4], arch |-> ps[5]]

\* The requests: the type of the route, and an archive segment put together
\* from a prefix, a type, a version or none, an OS, an arch and a suffix.
Types == {<<"f">>, <<"f", "_", "b">>}
Prefixes == {Prefix, <<"provider", "-">>}
VersionTexts == {<<"1", ".", "2">>, <<"1", "-", "2">>, <<"b">>}
OSTexts == {<<"l">>, <<"L">>, <<"l", "1">>}
ArchTexts == {<<"a", "6">>, <<"A", "6">>, <<"z", "i", "p">>}
Suffixes == {Zip, << >>, Zip \o Zip}
Shapes ==
  [prefix : Prefixes, type : Types, hasVersion : BOOLEAN,
   version : VersionTexts, os : OSTexts, arch : ArchTexts, suffix : Suffixes]

\* Without a version the shape has one text for it.
ShapesOf == {sh \in Shapes : sh.hasVersion \/ sh.version = <<"b">>}

ArchiveOf(sh) ==
  sh.prefix \o sh.type
    \o (IF sh.hasVersion THEN <<"_">> \o sh.version ELSE << >>)
    \o <<"_">> \o sh.os \o <<"_">> \o sh.arch \o sh.suffix

NoShape == [prefix |-> << >>, type |-> << >>, hasVersion |-> FALSE,
            version |-> << >>, os |-> << >>, arch |-> << >>, suffix |-> << >>]
NoRequest == [state |-> "none", type |-> << >>, shape |-> NoShape,
              archive |-> << >>, version |-> << >>, os |-> << >>,
              arch |-> << >>, err |-> ""]
NoIO == [syncs |-> 0, upstream |-> 0, downloads |-> 0]

ReqInit ==
  /\ rq = NoRequest
  /\ rio = NoIO
  /\ served = 0

\* A download request arrives: the route gives its type and its archive.
Arrive(type, sh) ==
  /\ rq.state \in {"none", "rejected", "failed", "served"}
  /\ served < MaxRequests
  /\ served' = served + 1
  /\ rq' = [NoRequest EXCEPT !.state = "arrived", !.type = type, !.shape = sh,
                             !.archive = ArchiveOf(sh)]
  /\ rio' = NoIO
  /\ UNCHANGED notRequest

\* The dispatcher validates the request: it answers 400 when Validate
\* returns an error and hands the request to the handler otherwise.
Dispatch ==
  /\ rq.state = "arrived"
  /\ LET v == Validate(rq.type, rq.archive) IN
       rq' = [rq EXCEPT !.state = IF v.err # "" THEN "rejected" ELSE "handler",
                        !.err = v.err, !.version = v.version, !.os = v.os,
                        !.arch = v.arch]
  /\ UNCHANGED <<notRequest, rio, served>>

\* Handler.DownloadArchive, Metadata.GetPlatform: the platform comes from
\* the store, or after a sync with its upstream request, or the sync fails.
HandlerGetPlatform ==
  /\ rq.state = "handler"
  /\ \E outcome \in {"stored", "synced", "error"} :
       /\ rq' = [rq EXCEPT !.state = IF outcome = "error" THEN "failed"
                                     ELSE "platform",
                           !.err = IF outcome = "error" THEN "sync" ELSE ""]
       /\ rio' = IF outcome = "stored" THEN rio
                 ELSE [rio EXCEPT !.syncs = @ + 1, !.upstream = @ + 1]
  /\ UNCHANGED <<notRequest, served>>

\* Handler.DownloadArchive, Storage.LoadArchive: the archive comes from the
\* disk, or after a download, or the download fails.
HandlerLoadArchive ==
  /\ rq.state = "platform"
  /\ \E outcome \in {"disk", "downloaded", "error"} :
       /\ rq' = [rq EXCEPT !.state = IF outcome = "error" THEN "failed"
                                     ELSE "served",
                           !.err = IF outcome = "error" THEN "download" ELSE ""]
       /\ rio' = IF outcome = "disk" THEN rio
                 ELSE [rio EXCEPT !.downloads = @ + 1, !.upstream = @ + 1]
  /\ UNCHANGED <<notRequest, served>>

RequestNext ==
  \/ \E type \in Types, sh \in ShapesOf : Arrive(type, sh)
  \/ Dispatch
  \/ HandlerGetPlatform
  \/ HandlerLoadArchive

(***************************************************************************)
(* The manual sync (Handler.SyncMetadata) and the scheduled sync           *)
(* (tasks/provider.SyncMetadata).                                          *)
(***************************************************************************)
NumClients == 2      \* clients that send PUT /v1/providers/sync
MaxGoroutines == 2   \* goroutines of gopool the handler can have running
MaxPuts == 3         \* PUT requests handled

Clients == 1..NumClients
Goroutines == 1..MaxGoroutines
\* The task of the scheduler, next to the goroutines of the handler.
Cron == 0
Runs == Goroutines \cup {Cron}

StatusOK == 200
StatusLocked == 423

NoPut == [status |-> 0, busy |-> FALSE, cron |-> FALSE, prev |-> "none"]
NoContext == [parent |-> "none", timeout |-> FALSE]
NoRun == [pc |-> "idle", err |-> "none", ctx |-> NoContext]

\* A context derived from the context of the request.
RunContextOfRequest(request) == [parent |-> request, timeout |-> TRUE]

\* context.WithTimeout(context.Background(), timeout): the context of the
\* run of the handler's goroutine has the timeout and no parent that can
\* cancel it.
RunContext(request) == [parent |-> "background", timeout |-> TRUE]

\* sync.Mutex.TryLock: whether the mutex is taken, which it is when free.
TryLock(locked) == ~locked

\* An unlock that leaves the mutex as it is.
UnlockSkipped(locked) == locked

\* sync.Mutex.Unlock: the mutex afterwards.
Unlock(locked) == FALSE

\* The runs of Metadata.Sync in progress: those of the handler's goroutines
\* and all of them.
ManualRunning == {g \in Goroutines : run[g].pc # "idle"}
Running == {g \in Runs : run[g].pc # "idle"}

ResyncInit ==
  /\ hm = FALSE
  /\ puts = [c \in Clients |-> NoPut]
  /\ run = [g \in Runs |-> NoRun]
  /\ ended = "none"
  /\ nput = 0

\* Handler.SyncMetadata: 423 when TryLock fails; else a goroutine is started
\* with the mutex held and the request is answered 200.
SyncMetadataPut(c) ==
  /\ nput < MaxPuts
  /\ nput' = nput + 1
  /\ IF TryLock(hm)
     THEN /\ hm' = TRUE
          /\ \E g \in Goroutines :
               /\ run[g].pc = "idle"
               /\ \A h \in Goroutines : h < g => run[h].pc # "idle"
               /\ run' = [run EXCEPT ![g] = [NoRun EXCEPT !.pc = "started"]]
          /\ puts' = [puts EXCEPT ![c] =
                        [status |-> StatusOK, busy |-> ManualRunning # {},
                         cron |-> run[Cron].pc # "idle", prev |-> ended]]
     ELSE /\ puts' = [puts EXCEPT ![c] =
                        [status |-> StatusLocked, busy |-> ManualRunning # {},
                         cron |-> run[Cron].pc # "idle", prev |-> ended]]
          /\ UNCHANGED <<hm, run>>
  /\ UNCHANGED ended
  /\ UNCHANGED notResync

\* The goroutine of the handler: the context with the timeout of the request
\* (two minutes when none is given), then h.s.Metadata.Sync(ctx).
GoSync(g) ==
  /\ g \in Goroutines
  /\ run[g].pc = "started"
  /\ run' = [run EXCEPT ![g].pc = "sync",
                        ![g].ctx = RunContext("request")]
  /\ UNCHANGED <<hm, puts, ended, nput>>
  /\ UNCHANGED notResync

\* The task of the scheduler fires, every 30 minutes and at the start:
\* providerService.Metadata.Sync(ctx), without the mutex of the handler.
CronSync ==
  /\ run[Cron].pc = "idle"
  /\ run' = [run EXCEPT ![Cron] =
                [pc |-> "sync", err |-> "none",
                 ctx |-> [parent |-> "task", timeout |-> FALSE]]]
  /\ UNCHANGED <<hm, puts, ended, nput>>
  /\ UNCHANGED notResync

\* Metadata.Sync returns: nil, an error of a sync, the error of a context
\* whose timeout has expired (the scheduler's context has none), or the
\* error of a context that was cancelled with the request, which has ended
\* when the goroutine runs.
SyncReturns(g, err) ==
  /\ run[g].pc = "sync"
  /\ err = "timeout" => run[g].ctx.timeout
  /\ err = "canceled" => run[g].ctx.parent = "request"
  /\ run' = [run EXCEPT ![g].pc = "ended", ![g].err = err]
  /\ UNCHANGED <<hm, puts, ended, nput>>
  /\ UNCHANGED notResync

\* The goroutine of the handler ends: the warning is logged on error and
\* the deferred cancel and h.m.Unlock() run.
GoEnds(g) ==
  /\ g \in Goroutines
  /\ run[g].pc = "ended"
  /\ hm' = Unlock(hm)
  /\ ended' = run[g].err
  /\ run' = [run EXCEPT ![g] = NoRun]
  /\ UNCHANGED <<puts, nput>>
  /\ UNCHANGED notResync

\* The task of the scheduler ends.
CronEnds ==
  /\ run[Cron].pc = "ended"
  /\ run' = [run EXCEPT ![Cron] = NoRun]
  /\ UNCHANGED <<hm, puts, ended, nput>>
  /\ UNCHANGED notResync

ResyncNext ==
  \/ \E c \in Clients : SyncMetadataPut(c)
  \/ \E g \in Goroutines : GoSync(g)
  \/ CronSync
  \/ \E g \in Runs : \E err \in {"nil", "error", "timeout", "canceled"} :
         SyncReturns(g, err)
  \/ \E g \in Goroutines : GoEnds(g)
  \/ CronEnds

(***************************************************************************)
(* syncPlatforms of one version that declares several platforms: one       *)
(* goroutine of the group per platform, each with an Update of its own.    *)
(***************************************************************************)
Darwin == [os |-> "darwin", arch |-> "arm64"]
Windows == [os |-> "windows", arch |-> "amd64"]

\* The platforms the data of the version declares, as sort.Slice leaves
\* them: by os, then by arch.
SortedPlatforms == <<Darwin, Linux, Windows>>
Members == DOMAIN SortedPlatforms

\* The version whose platforms are synced.
GroupVersion == "2.0.0"

\* The bucket of a platform: absent, or put by an earlier sync.
NoBucket == [exists |-> FALSE, data |-> "none", modified |-> FALSE]
OldBucket == [exists |-> TRUE, data |-> "old", modified |-> TRUE]

\* A function given to wg.Go that has not been called.
NoMember == [pc |-> "none", err |-> FALSE, put |-> "none"]
NoGroupCall == [pc |-> "idle", platforms |-> << >>, i |-> 1, err |-> FALSE]

\* The return of wg.Wait, which syncPlatforms returns: nil mutated in.
wgWaitNil(errs) == FALSE

\* return wg.Wait(): the error of the group, not nil when a function given
\* to wg.Go returned an error.
wgWait(errs) == TRUE \in errs

GroupIdle ==
  /\ gsp = NoGroupCall
  /\ wg = [i \in Members |-> NoMember]
  /\ gsyncing = {}
  /\ gwriter = NoProc
  /\ gdb = [i \in Members |-> NoBucket]

\* The platform buckets an earlier sync has left, the keys other goroutines
\* are syncing, and a version whose data declares the platforms or none.
GroupInit ==
  /\ \E ps \in {<< >>, SortedPlatforms} :
       gsp = [NoGroupCall EXCEPT !.pc = "check", !.platforms = ps]
  /\ wg = [i \in Members |-> NoMember]
  /\ gsyncing \in SUBSET ({VersionKey(GroupVersion)} \cup
                          {PlatformKey(GroupVersion, SortedPlatforms[i]) :
                             i \in Members})
  /\ Cardinality(gsyncing) <= 1
  /\ gwriter = NoProc
  /\ gdb \in [Members -> {NoBucket, OldBucket}]

\* syncPlatforms: if s.isSyncing(key) { return nil }, else the key is
\* stored.
GsCheck ==
  /\ gsp.pc = "check"
  /\ IF VersionKey(GroupVersion) \in gsyncing
     THEN /\ gsp' = [gsp EXCEPT !.pc = "returned"]
          /\ UNCHANGED gsyncing
     ELSE /\ gsp' = [gsp EXCEPT !.pc = "view"]
          /\ gsyncing' = gsyncing \cup {VersionKey(GroupVersion)}
  /\ UNCHANGED notGroup
  /\ UNCHANGED <<wg, gwriter, gdb>>

\* The View that reads the platforms of the version: without platforms
\* syncPlatforms returns nil, and the deferred Delete drops its key.
GsView ==
  /\ gsp.pc = "view"
  /\ IF gsp.platforms = << >>
     THEN /\ gsp' = [gsp EXCEPT !.pc = "returned"]
          /\ gsyncing' = Delete(gsyncing, VersionKey(GroupVersion))
     ELSE /\ gsp' = [gsp EXCEPT !.pc = "go"]
          /\ UNCHANGED gsyncing
  /\ UNCHANGED notGroup
  /\ UNCHANGED <<wg, gwriter, gdb>>

\* The loop over the platforms: wg.Go of syncPlatform for the next one.
WgGo ==
  /\ gsp.pc = "go"
  /\ wg' = [wg EXCEPT ![gsp.i].pc = "check"]
  /\ gsp' = [gsp EXCEPT !.i = @ + 1,
                        !.pc = IF gsp.i = Len(gsp.platforms) THEN "wait"
                               ELSE "go"]
  /\ UNCHANGED notGroup
  /\ UNCHANGED <<gsyncing, gwriter, gdb>>

\* syncPlatform of a member: if s.isSyncing(key) { return nil }, else the
\* key is stored.
GpCheck(i) ==
  /\ wg[i].pc = "check"
  /\ IF PlatformKey(GroupVersion, SortedPlatforms[i]) \in gsyncing
     THEN /\ wg' = [wg EXCEPT ![i].pc = "done"]
          /\ UNCHANGED gsyncing
     ELSE /\ wg' = [wg EXCEPT ![i].pc = "begin"]
          /\ gsyncing' =
               gsyncing \cup {PlatformKey(GroupVersion, SortedPlatforms[i])}
  /\ UNCHANGED notGroup
  /\ UNCHANGED <<gsp, gwriter, gdb>>

\* The member enters boltDriver.Update, one writer at a time, and sends the
\* request for its platform.
GpBegin(i) ==
  /\ wg[i].pc = "begin"
  /\ Begin(gwriter)
  /\ gwriter' = i
  /\ wg' = [wg EXCEPT ![i].pc = "inflight"]
  /\ UNCHANGED notGroup
  /\ UNCHANGED <<gsp, gsyncing, gdb>>

\* The answer for the platform of a member.  An error of the request or of
\* the Put of the data rolls its Update back; an empty answer (304, to a
\* request that carried the modified of the bucket) puts "modified"; data
\* is put with "modified".  The Update ends, the deferred Delete drops the
\* key of the member and its function returns the error.
GpResponse(i, answer) ==
  /\ wg[i].pc = "inflight"
  /\ answer = "empty" => gdb[i].modified
  /\ gwriter' = NoProc
  /\ gsyncing' =
       Delete(gsyncing, PlatformKey(GroupVersion, SortedPlatforms[i]))
  /\ CASE answer \in {"failed", "unwritable"} ->
            /\ wg' = [wg EXCEPT ![i] = [pc |-> "done", err |-> TRUE,
                                         put |-> "none"]]
            /\ UNCHANGED gdb
       [] answer = "empty" ->
            /\ wg' = [wg EXCEPT ![i] = [pc |-> "done", err |-> FALSE,
                                         put |-> "modified"]]
            /\ gdb' = [gdb EXCEPT ![i].exists = TRUE, ![i].modified = TRUE]
       [] OTHER ->
            /\ wg' = [wg EXCEPT ![i] = [pc |-> "done", err |-> FALSE,
                                         put |-> "data"]]
            /\ gdb' = [gdb EXCEPT ![i] = [exists |-> TRUE, data |-> "new",
                                           modified |-> TRUE]]
  /\ UNCHANGED notGroup
  /\ UNCHANGED gsp

\* return wg.Wait(): every function given to the group has returned; the
\* deferred Delete drops the key of the version.
WgWait ==
  /\ gsp.pc = "wait"
  /\ \A i \in Members : wg[i].pc = "done"
  /\ gsp' = [gsp EXCEPT !.pc = "returned",
                        !.err = wgWait({wg[i].err : i \in Members})]
  /\ gsyncing' = Delete(gsyncing, VersionKey(GroupVersion))
  /\ UNCHANGED notGroup
  /\ UNCHANGED <<wg, gwriter, gdb>>

GroupNext ==
  \/ GsCheck \/ GsView \/ WgGo \/ WgWait
  \/ \E i \in Members :
       \/ GpCheck(i) \/ GpBegin(i)
       \/ \E answer \in {"data", "empty", "failed", "unwritable"} :
            GpResponse(i, answer)

(***************************************************************************)
(* service.Sync over the buckets of several providers: batches of ten, one *)
(* goroutine of the group per batch.                                       *)
(***************************************************************************)
MaxRefs == 12
batch == 10

\* The buckets of providers a store can hold, by their place in the
\* iteration of ForEachBucket, and the batches they can make.
Refs == 0..(MaxRefs - 1)
Batches == 1..(MaxRefs \div batch + 1)

NoSync == [pc |-> "idle", t |-> 0, i |-> 0, n |-> 0, err |-> FALSE]
NoBatch == [pc |-> "none", lo |-> 0, hi |-> 0, k |-> 0, err |-> FALSE]

\* err = s.syncVersions(...): the error of the last call alone.
multierrLast(err, e) == e

\* multierr.Append(err, e): an error when either is one.
multierrAppend(err, e) == err \/ e

\* j := i + batch; if j >= t { j = t }.
BatchEnd(i, t) == IF i + batch >= t THEN t ELSE i + batch

BatchIdle ==
  /\ ssync = NoSync
  /\ sbatch = [b \in Batches |-> NoBatch]
  /\ scalled = [r \in Refs |-> 0]
  /\ sfailed = FALSE

\* Sync is called on a store that holds some buckets of providers.
BatchInit ==
  /\ \E t \in 0..MaxRefs : ssync = [NoSync EXCEPT !.pc = "view", !.t = t]
  /\ sbatch = [b \in Batches |-> NoBatch]
  /\ scalled = [r \in Refs |-> 0]
  /\ sfailed = FALSE

\* The View that collects typedBucketNames; without any, Sync returns nil.
SyView ==
  /\ ssync.pc = "view"
  /\ ssync' = [ssync EXCEPT !.pc = IF ssync.t = 0 THEN "returned" ELSE "go"]
  /\ UNCHANGED notBatch
  /\ UNCHANGED <<sbatch, scalled, sfailed>>

\* The loop over the names: wg.Go of a function for typedBucketNames[i:j].
SyGo ==
  /\ ssync.pc = "go"
  /\ LET j == BatchEnd(ssync.i, ssync.t) IN
       /\ sbatch' = [sbatch EXCEPT ![ssync.n + 1] =
                       [pc |-> "run", lo |-> ssync.i, hi |-> j,
                        k |-> ssync.i, err |-> FALSE]]
       /\ ssync' = [ssync EXCEPT !.i = j, !.n = @ + 1,
                                 !.pc = IF j < ssync.t THEN "go" ELSE "wait"]
  /\ UNCHANGED notBatch
  /\ UNCHANGED <<scalled, sfailed>>

\* The function of a batch calls syncVersions for its next name and appends
\* what it returns, nil or an error, to its error; after the last name it
\* returns.
BtSync(b, e) ==
  /\ sbatch[b].pc = "run"
  /\ scalled' = [scalled EXCEPT ![sbatch[b].k] = @ + 1]
  /\ sfailed' = (sfailed \/ e)
  /\ sbatch' = [sbatch EXCEPT
                  ![b].err = multierrAppend(@, e),
                  ![b].k = @ + 1,
                  ![b].pc = IF sbatch[b].k + 1 < sbatch[b].hi THEN "run"
                            ELSE "done"]
  /\ UNCHANGED notBatch
  /\ UNCHANGED ssync

\* return wg.Wait(): every function given to the group has returned.
SyWait ==
  /\ ssync.pc = "wait"
  /\ \A b \in Batches : sbatch[b].pc \in {"none", "done"}
  /\ ssync' = [ssync EXCEPT !.pc = "returned",
                            !.err = wgWait({sbatch[b].err : b \in Batches})]
  /\ UNCHANGED notBatch
  /\ UNCHANGED <<sbatch, scalled, sfailed>>

BatchNext ==
  \/ SyView \/ SyGo \/ SyWait
  \/ \E b \in Batches : \E e \in BOOLEAN : BtSync(b, e)

(***************************************************************************)
(* The specifications: one per part of the program, the other parts idle.  *)
(***************************************************************************)
vars ==
  <<archiveVars, metaVars, requestVars, resyncVars, groupVars, batchVars>>

ArchiveIdle ==
  /\ ArchiveInit /\ FreshStore
  /\ ~acceptRanges /\ shasum = [f \in Filenames |-> EmptyShasum]

MetaIdle ==
  MetaInit /\ zone = 0 /\ db = EmptyDB

\* The parts that are idle in the specification of one part.
OthersIdle == ReqInit /\ ResyncInit /\ GroupIdle /\ BatchIdle

InitArchive == ArchiveInit /\ FreshStore /\ MetaIdle /\ OthersIdle
InitStore ==
  /\ ArchiveInit /\ MetaIdle /\ OthersIdle
  /\ shasum["big"] \in {EmptyShasum, HexLower(Body("big"))}
InitMeta == MetaInit /\ ArchiveIdle /\ OthersIdle
InitRequest ==
  ReqInit /\ ArchiveIdle /\ MetaIdle /\ ResyncInit /\ GroupIdle /\ BatchIdle
InitRead == InitMeta /\ zone = 0
InitResync ==
  ResyncInit /\ ArchiveIdle /\ MetaIdle /\ ReqInit /\ GroupIdle /\ BatchIdle
InitStale == StaleInit /\ ArchiveIdle /\ OthersIdle
InitRetry == RetryInit /\ ArchiveIdle /\ OthersIdle
InitGroup ==
  GroupInit /\ ArchiveIdle /\ MetaIdle /\ ReqInit /\ ResyncInit /\ BatchIdle
InitBatch ==
  BatchInit /\ ArchiveIdle /\ MetaIdle /\ ReqInit /\ ResyncInit /\ GroupIdle

ArchiveSpec == InitArchive /\ [][ArchiveNext]_vars

\* Every step of a caller that has called.
Step(p) ==
  \/ Resolve(p) \/ Slot(p) \/ Lock(p) \/ Wait(p) \/ Wake(p) \/ GetBegin(p)
  \/ Download(p) \/ DownloadPartial(p) \/ Release(p) \/ Done(p) \/ Broadcast(p)

\* A goroutine that can run does run, and every request of a download ends.
FairArchiveSpec == ArchiveSpec /\ \A p \in Callers : WF_vars(Step(p))

MetaSpec == InitMeta /\ [][MetaNext]_vars

RequestSpec == InitRequest /\ [][RequestNext]_vars


ResyncSpec == InitResync /\ [][ResyncNext]_vars

ReadSpec == InitRead /\ [][ReadNext]_vars

StoreSpec == InitStore /\ [][ArchiveNext]_vars

GroupSpec == InitGroup /\ [][GroupNext]_vars

StaleSpec == InitStale /\ [][StaleNext]_vars

BatchSpec == InitBatch /\ [][BatchNext]_vars

EmptyNameSpec == InitArchive /\ [][EmptyNameNext]_vars

\* Every step of a caller, those for an empty Filename among them.
StepAny(p) == Step(p) \/ ResolveEmpty(p) \/ GetEmpty(p)

FairEmptyNameSpec == EmptyNameSpec /\ \A p \in Callers : WF_vars(StepAny(p))

RetrySpec == InitRetry /\ [][RetryNext]_vars

\* A goroutine that can run does run, and every upstream request is
\* answered.
FairRetrySpec == RetrySpec /\ \A p \in MetaProcs : WF_vars(MetaStep(p))
(***************************************************************************)
(* Properties of the archive store.                                        *)
(***************************************************************************)
CallersOf(f) == {p \in Callers : pc[p] # "idle" /\ fname[p] = f}
InGet(p) == pc[p] \in {"get", "download"}
Waiting(p) == rd[p] /\ pc[p] \in {"lock", "wait", "blocked"}
OwnerReturned(b) == pc[b] = "done" /\ brDone[b]

\* C1: the callers of LoadArchive for one archive that is not on disk, with
\* the recorded Shasum being that of the upstream body, cause at most one
\* completed transfer of the body, every archive returned is the upstream
\* body, whose SHA-256 is the Shasum, and when no request failed and all the
\* callers have returned there was exactly one transfer and all received it.
SingleFlightArchive ==
  \A f \in Filenames :
    shasum[f] = HexLower(Body(f)) =>
      /\ transfers[f] <= 1
      /\ \A p \in CallersOf(f) :
           result[p].status = "ok" =>
             /\ result[p].data = Body(f)
             /\ HexLower(result[p].data) = shasum[f]
      /\ (faults = 0 /\ CallersOf(f) # {} /\ \A p \in CallersOf(f) : pc[p] = "done") =>
           /\ transfers[f] = 1
           /\ \A p \in CallersOf(f) : result[p].status = "ok"

\* All callers asked for the same archive, one of them waited on the slot,
\* and all have the archive after one transfer.
SingleFlightArchiveWitness ==
  /\ shasum["big"] = HexLower(Body("big"))
  /\ \A p \in Callers :
       pc[p] = "done" /\ fname[p] = "big" /\ result[p] = Archive(Body("big"))
  /\ \E p \in Callers : rd[p]
  /\ transfers["big"] = 1

\* C3: when Get has returned success for a non-empty Shasum the output is a
\* regular file whose lowercase hex SHA-256 is the Shasum, and no output
\* whose hash differs from a non-empty Shasum is ever installed.
GetSuccessMatchesShasum ==
  /\ \A p \in Callers :
       (pc[p] = "resolve" /\ held[p] /\ shasum[fname[p]] # EmptyShasum) =>
         /\ files[fname[p]].kind = "file"
         /\ HexLower(files[fname[p]].data) = shasum[fname[p]]
  /\ \A f \in Filenames :
       (files[f].kind = "file" /\ shasum[f] # EmptyShasum) =>
         HexLower(files[f].data) = shasum[f]

\* Get has just returned success to the owner of the slot after a range
\* download checked against a non-empty Shasum.
GetSuccessMatchesShasumWitness ==
  \E p \in Callers :
    /\ pc[p] = "resolve" /\ held[p] /\ acceptRanges
    /\ shasum[fname[p]] = HexLower(Body(fname[p]))
    /\ files[fname[p]] = Regular(Body(fname[p]))

\* C7: a range download that was killed mid-stream left its temp file; when
\* Get is run again in range mode with that temp file, against the same
\* upstream and the recorded Shasum, and meets no further failure, it
\* completes the file: the output is the upstream body, whose SHA-256 is the
\* recorded Shasum.
ResumedRangeDownloadConverges ==
  [][\A p \in Callers :
       ( /\ pc[p] = "download"
         /\ get[p].partialDownload
         /\ get[p].receivedLength > 0
         /\ shasum[fname[p]] = HexLower(Body(fname[p]))
         /\ pc'[p] # "download"
         /\ faults' = faults )
       => files'[fname[p]] = Regular(Body(fname[p]))]_vars

\* C9: two executions of download.Get for the provider directory never
\* overlap, whatever the file names.
OneDownloaderPerDirectory ==
  \A p, q \in Callers : p # q => ~(InGet(p) /\ InGet(q))

\* One caller is downloading while a caller for another file name of the
\* directory is blocked on the slot.
OneDownloaderPerDirectoryWitness ==
  \E p, q \in Callers :
    /\ pc[p] = "download" /\ pc[q] = "blocked" /\ q \in brNotify[br[q]]
    /\ fname[p] # fname[q]

\* C10: once the owner of a slot has returned, the slot is no longer in the
\* map, nobody is left on the barrier's notify list and its lock is free for
\* the waiters; and every caller waiting on the barrier of an owner that has
\* returned gets to resolve again.
SlotReleasedWaitersWoken ==
  /\ [](\A b \in Callers :
          OwnerReturned(b) =>
            /\ barriers # b
            /\ brNotify[b] = {}
            /\ brLock[b] # b)
  /\ \A q \in Callers :
       (Waiting(q) /\ OwnerReturned(br[q])) ~> (pc[q] = "resolve")

\* The owner has returned with a failed download and a caller that waited on
\* its slot is resolving again.
SlotReleasedWaitersWokenWitness ==
  \E b, q \in Callers :
    /\ OwnerReturned(b) /\ result[b] = Failed("download")
    /\ q # b /\ rd[q] /\ pc[q] = "resolve"


(***************************************************************************)
(* Properties of the metadata service.                                     *)
(***************************************************************************)

\* C2: for each sync key at most one goroutine is a synchronizer of the key
\* at a time, that is between its s.syncing.Store(key) and its deferred
\* s.syncing.Delete(key).
OneSynchronizerPerKey ==
  \A k \in SyncKeys : Cardinality(Synchronizers(k)) <= 1

\* A GetVersions that has returned the versions of the store, some sync
\* having committed a listing before it read.
ListedAfterSync(p) ==
  /\ mop[p] = "GetVersions" /\ mpc[p] = "done"
  /\ mres[p].status = "ok" /\ mres[p].any

\* C4, as stated: GetVersions after a SyncVersions that committed returns
\* exactly the versions upstream returned to the last such sync.
GetVersionsEqualsLastSync ==
  \A p \in Syncers : ListedAfterSync(p) => mres[p].versions = mres[p].last

\* C4, amended: GetVersions after a SyncVersions that committed returns every
\* version with a name that upstream returned to the last such sync, and
\* exactly the versions with a name that upstream returned to the syncs that
\* committed so far, the earlier ones included.
GetVersionsUnionOfSyncs ==
  \A p \in Syncers :
    ListedAfterSync(p) =>
      /\ mres[p].last \subseteq mres[p].versions
      /\ mres[p].versions = mres[p].all

\* GetVersions has returned a version that the last sync was not given: the
\* upstream dropped it after an earlier sync had stored it.
GetVersionsUnionOfSyncsWitness ==
  \E p \in Syncers :
    /\ ListedAfterSync(p)
    /\ mres[p].last = {"2.0.0"}
    /\ mres[p].versions = {"1.0.0", "2.0.0"}

\* C5: a GetVersions called when the bucket of the provider exists is
\* answered from the store: it never leaves the query, sends no upstream
\* request, and returns the versions without error.
StoreHitNoUpstream ==
  \A p \in Syncers :
    (mop[p] = "GetVersions" /\ mref[p]) =>
      /\ mups[p] = 0
      /\ mpc[p] \in {"query", "done"}
      /\ mpc[p] = "done" => mres[p].status = "ok"

\* One GetVersions found no bucket and filled the store with one upstream
\* request, and a later one was answered from the store.
StoreHitNoUpstreamWitness ==
  \E p, q \in Syncers :
    /\ mop[q] = "GetVersions" /\ ~mref[q] /\ mups[q] = 1 /\ mpc[q] = "done"
    /\ mres[q].status = "ok"
    /\ mop[p] = "GetVersions" /\ mref[p] /\ mups[p] = 0 /\ mpc[p] = "done"
    /\ mres[p].status = "ok" /\ mres[p].versions # {}

\* C6: when syncVersions gets the answer to its request on a bucket that an
\* earlier sync wrote, the upstream listing not having changed since, the
\* request carried If-Modified-Since, was answered 304, and the transaction
\* has no record to write.
ResyncConditionalNotModified ==
  [][\A p \in Syncers :
       ( /\ mpc[p] = "sv_inflight" /\ mpc'[p] = "sv_put"
         /\ db.modified.set
         /\ seen = up.gen )
       => LET r == ProviderGetVersions(ParseRFC3339(db.modified), up) IN
            /\ r.conditional
            /\ r.status = 304
            /\ tx'.nil /\ tx'.todo = << >>
            /\ tx'.versions = db.versions]_vars

(***************************************************************************)
(* Properties of the download request.                                     *)
(***************************************************************************)
HasUpper(text) == \E i \in 1..Len(text) : text[i] \in Upper

\* An archive segment that departs from
\* terraform-provider-<type>_<version>_<os>_<arch>.zip by an uppercase
\* arch, by a missing version, or by a missing or doubled .zip suffix.
Deviates(sh) ==
  \/ HasUpper(sh.arch)
  \/ ~sh.hasVersion /\ \A i \in 1..Len(sh.type) : sh.type[i] # "_"
  \/ sh.suffix # Zip

\* C8: a download request whose archive segment does not match the release
\* pattern, and in particular one that departs from it as above, is rejected
\* by the validation, and no sync, no upstream request and no download is
\* made for it.
FilenameGate ==
  (rq.state # "none" /\
     (\/ Submatches(regexValidArchive, rq.archive) = {}
      \/ Deviates(rq.shape)))
  => /\ rq.state \in {"arrived", "rejected"}
     /\ rq.state = "rejected" => rq.err = "invalid archive"
     /\ rio = NoIO

\* A request that is well formed but for its uppercase arch was rejected.
FilenameGateWitness ==
  /\ rq.state = "rejected" /\ rq.err = "invalid archive" /\ rio = NoIO
  /\ rq.shape.prefix = Prefix /\ rq.shape.type = rq.type
  /\ rq.shape.hasVersion /\ rq.shape.version = <<"1", ".", "2">>
  /\ rq.shape.os = <<"l">> /\ rq.shape.arch = <<"A", "6">>
  /\ rq.shape.suffix = Zip

\* The pattern with the OS taken for alphanumeric: letters of both cases and
\* digits.
AlphanumericOSPattern ==
  <<Literal(Prefix), Group(WordClass), Literal(<<"_">>), Group(VersionClass),
    Literal(<<"_">>), Group(Lower \cup Upper \cup Digits), Literal(<<"_">>),
    Group(ArchClass), Literal(Zip)>>

\* C25, as stated: Validate accepts the archive segment exactly when it is
\* terraform-provider-<type>_<ver>_<os>_<arch>.zip with an alphanumeric os,
\* a lowercase alphanumeric arch and the type of the route as its type, and
\* then Version, OS and Arch are these parts of the segment.
ValidateAcceptsAlphanumericOS ==
  rq.state \in {"rejected", "handler"} =>
    LET ps == FindStringSubmatch(AlphanumericOSPattern, rq.archive) IN
      /\ rq.state = "handler" <=> (Len(ps) = 5 /\ ps[2] = rq.type)
      /\ rq.state = "handler" =>
           <<rq.version, rq.os, rq.arch>> = <<ps[3], ps[4], ps[5]>>

\* C11, as stated: a PUT is answered 200 only when no run of Metadata.Sync,
\* of the handler or of the scheduler, is in progress, and no two runs of
\* Metadata.Sync are in progress at the same time.
ResyncRunsNeverOverlap ==
  /\ Cardinality(Running) <= 1
  /\ \A c \in Clients :
       puts[c].status = StatusOK => ~puts[c].busy /\ ~puts[c].cron

\* C12: the mutex is held exactly while a run started by the handler is in
\* progress, however the run ends, and a PUT that arrives after a run has
\* ended, with none in progress, is answered 200.
LockReleasedWhenRunEnds ==
  /\ hm <=> ManualRunning # {}
  /\ \A c \in Clients :
       (puts[c].prev # "none" /\ ~puts[c].busy) => puts[c].status = StatusOK

LockReleasedWhenRunEndsWitness ==
  \E c, d \in Clients :
    /\ puts[c].status = StatusOK /\ puts[c].prev = "timeout"
    /\ puts[d].status = StatusOK /\ puts[d].prev = "error"
    /\ ~hm

\* C14: a GetVersions whose View runs while the Update of syncVersions is
\* open returns the versions stored before that Update, or finds no bucket
\* of the provider when there was none; after the commit it returns those
\* and all the versions the Update has put: never some of them.
ReadsSeeWholeTransactions ==
  [][\A p \in Syncers :
       (mop[p] = "GetVersions" /\ mpc[p] = "query" /\ mpc'[p] # "query")
       => IF mpc'[p] = "done"
          THEN /\ db.typed
               /\ mres'[p].versions \in
                    {DOMAIN db.versions,
                     DOMAIN db.versions \cup Stored(tx.entries)}
          ELSE ~db.typed]_vars

ReadsSeeWholeTransactionsWitness ==
  /\ tx.open /\ tx.todo # << >>
  /\ DOMAIN tx.versions # DOMAIN db.versions
  /\ DOMAIN tx.versions # DOMAIN db.versions \cup Stored(tx.entries)
  /\ \E p \in Syncers : mop[p] = "GetVersions" /\ mpc[p] = "query"

\* C13: the store has a platform bucket only inside a version bucket and a
\* version bucket only inside the bucket of the provider, and a syncPlatform
\* that ends with the version not in the store has sent no request and has
\* made no bucket.
BucketsNested ==
  /\ DOMAIN db.platforms \subseteq DOMAIN db.versions
  /\ DOMAIN db.versions # {} => db.typed
  /\ \A p \in Syncers :
       ( /\ mop[p] = "syncPlatform" /\ mpc[p] = "done"
         /\ ~VersionFound(db, mver[p]) )
       => /\ mups[p] = 0
          /\ mver[p] \notin DOMAIN db.platforms
          /\ mres[p].status = "ok"

BucketsNestedWitness ==
  /\ db.typed
  /\ "2.0.0" \in DOMAIN db.platforms
  /\ \E p \in Syncers :
       /\ mop[p] = "syncPlatform" /\ mpc[p] = "done" /\ mver[p] = "3.0.0"
       /\ mups[p] = 0

GetVersionHasPlatforms ==
  /\ [](\A p \in Syncers :
          (mop[p] = "GetVersion" /\ mpc[p] = "done" /\ mres[p].status = "ok")
          => /\ VersionFound(db, mver[p])
             /\ db.versions[mver[p]].platforms # << >>
                  => mver[p] \in DOMAIN db.platforms)
  /\ [][\A p \in Syncers :
          ( /\ mop[p] = "GetVersion" /\ mpc[p] = "query_version"
            /\ mpc'[p] # "query_version"
            /\ VersionFound(db, mver[p])
            /\ db.versions[mver[p]].platforms # << >>
            /\ mver[p] \notin DOMAIN db.platforms )
          => mpc'[p] = "platforms_miss"]_vars
  /\ [][\A p \in Syncers :
          (mpc[p] = "platforms_miss" /\ mpc'[p] # "platforms_miss")
          => \/ mpc'[p] = "sps_check"
             \/ mpc'[p] = "query_version" /\ VersionKey(mver[p]) \in syncing]_vars

GetVersionHasPlatformsWitness ==
  \E p \in Syncers :
    /\ mop[p] = "GetVersion" /\ mpc[p] = "done" /\ mres[p].status = "ok"
    /\ mver[p] = "2.0.0" /\ mups[p] > 0
    /\ "2.0.0" \in DOMAIN db.platforms
    /\ mres[p].platforms # << >>

\* C16: LoadArchive looks in the implied directory, then in the explicit
\* directory, then downloads.  A regular file of the implied directory is
\* returned as it is, with no request to upstream and no change to the
\* explicit directory, and its caller never reaches the downloader; else a
\* regular file of the explicit directory is returned as it is, whatever its
\* hash, with no request to upstream; a directory at the path of the archive
\* is deleted and the caller goes on to fetch the archive.
LoadArchiveOrder ==
  /\ [][\A p \in Callers :
          (pc[p] = "resolve" /\ pc'[p] # "resolve") =>
            LET f == fname[p] IN
              CASE implied[f].kind = "file" ->
                     /\ result'[p] = Archive(implied[f].data)
                     /\ files' = files /\ temps' = temps
                     /\ transfers' = transfers
                [] implied[f].kind # "file" /\ files[f].kind = "file" ->
                     /\ result'[p] = Archive(files[f].data)
                     /\ files' = files /\ temps' = temps
                     /\ transfers' = transfers
                [] OTHER ->
                     /\ files'[f] = NoFile
                     /\ pc'[p] = "slot"
                     /\ result'[p] = result[p]]_vars
  /\ [](\A p \in Callers :
          (pc[p] # "idle" /\ implied[fname[p]].kind = "file")
          => pc[p] \in {"resolve", "done"})

LoadArchiveOrderWitness ==
  \E p, q \in Callers :
    /\ pc[p] = "done" /\ fname[p] = "big"
    /\ implied["big"].kind = "file" /\ files["big"].kind = "file"
    /\ result[p] = Archive(implied["big"].data)
    /\ result[p].data # files["big"].data
    /\ pc[q] = "done" /\ fname[q] = "small"
    /\ result[q] = Archive(files["small"].data)
    /\ ~validateShasum(files["small"].data, shasum["small"])
    /\ transfers = [f \in Filenames |-> 0]

\* C17, as stated: no archive is served from the explicit directory with a
\* content whose hash differs from the Shasum recorded for it.
CorruptArchiveNotServed ==
  \A p \in Callers :
    ( /\ pc[p] = "done" /\ result[p].status = "ok"
      /\ implied[fname[p]].kind # "file" )
    => validateShasum(result[p].data, shasum[fname[p]])

\* C17, amended: only what is downloaded is verified.  A regular file that
\* LoadArchive finds in the explicit directory is served as it is, with no
\* request to upstream, also when its hash differs from the recorded Shasum;
\* and a file is put into the explicit directory only when its hash matches
\* the Shasum or the Shasum is empty.
OnlyDownloadsVerified ==
  /\ [][\A p \in Callers :
          ( /\ pc[p] = "resolve" /\ pc'[p] # "resolve"
            /\ implied[fname[p]].kind # "file"
            /\ files[fname[p]].kind = "file"
            /\ ~validateShasum(files[fname[p]].data, shasum[fname[p]]) )
          => /\ pc'[p] = "done"
             /\ result'[p] = Archive(files[fname[p]].data)
             /\ files' = files
             /\ transfers' = transfers]_vars
  /\ [][\A f \in Filenames :
          (files'[f] # files[f] /\ files'[f].kind = "file")
          => validateShasum(files'[f].data, shasum[f])]_vars

OnlyDownloadsVerifiedWitness ==
  \E p \in Callers :
    /\ pc[p] = "done" /\ fname[p] = "small" /\ result[p].status = "ok"
    /\ shasum["small"] # EmptyShasum
    /\ ~validateShasum(result[p].data, shasum["small"])
    /\ files["small"] = Regular(result[p].data)
    /\ transfers["small"] = 0

\* C18, as stated: when the hash of the downloaded temp file differs from a
\* non-empty Shasum the request fails, and the temp file is deleted after a
\* sequential download and kept after a range download.
MismatchKeepsRangeTemp ==
  [][\A p \in Callers :
       ( /\ pc[p] = "download" /\ pc'[p] # "download"
         /\ result'[p] = Failed("shasum mismatched") )
       => /\ shasum[fname[p]] # EmptyShasum
          /\ IF get[p].partialDownload
             THEN temps'[fname[p]].kind = "file"
             ELSE temps'[fname[p]] = NoFile]_vars

\* C18, amended: when the hash of the downloaded temp file differs from a
\* non-empty Shasum the request fails and the temp file is deleted, after a
\* sequential and after a range download alike, and nothing is put into the
\* explicit directory; the temp file is kept only when a request of a range
\* download fails.
MismatchDeletesTemp ==
  [][\A p \in Callers :
       (pc[p] = "download" /\ pc'[p] # "download") =>
         LET f == fname[p] IN
           CASE result'[p] = Failed("shasum mismatched") ->
                  /\ shasum[f] # EmptyShasum
                  /\ temps'[f] = NoFile
                  /\ files' = files
             [] result'[p] = Failed("download") ->
                  /\ files' = files
                  /\ IF get[p].partialDownload
                     THEN temps'[f].kind = "file"
                     ELSE temps'[f] = NoFile
             [] OTHER ->
                  /\ temps'[f] = NoFile
                  /\ files'[f].kind = "file"
                  /\ validateShasum(files'[f].data, shasum[f])]_vars

MismatchDeletesTempWitness ==
  \E p, q \in Callers :
    /\ pc[p] = "done" /\ result[p] = Failed("shasum mismatched")
    /\ get[p].partialDownload /\ transfers[fname[p]] > 0
    /\ temps[fname[p]] = NoFile
    /\ pc[q] = "done" /\ result[q] = Failed("shasum mismatched")
    /\ ~get[q].partialDownload /\ fname[q] = fname[p]
    /\ files[fname[p]] = NoFile

\* C19, as stated: when Get finds a temp file that is longer than the
\* content length upstream has advertised, it deletes the temp file and
\* starts the download on an empty file, with nothing counted as received.
OversizedTempRestarted ==
  [][\A p \in Callers :
       ( /\ pc[p] = "get" /\ pc'[p] = "download"
         /\ temps[fname[p]].kind = "file"
         /\ get'[p].contentLength > 0
         /\ Len(temps[fname[p]].data) > get'[p].contentLength )
       => /\ temps'[fname[p]] = Regular(<< >>)
          /\ get'[p].receivedLength = 0]_vars

ManualSyncDetached ==
  /\ \A g \in Goroutines :
       run[g].pc \in {"sync", "ended"}
       => /\ run[g].ctx.parent # "request"
          /\ run[g].ctx.timeout
          /\ run[g].err # "canceled"
          /\ nput > 0
  /\ ended # "canceled"

ManualSyncDetachedWitness ==
  /\ ended = "timeout"
  /\ \E g \in Goroutines :
       /\ run[g].pc = "ended" /\ run[g].err = "nil"
       /\ run[g].ctx = [parent |-> "background", timeout |-> TRUE]
  /\ \A c \in Clients : puts[c].status = StatusOK

\* C26: when the body of the answer has no array under "versions",
\* GetVersions returns the empty listing and no error, and the syncVersions
\* that receives it commits: it returns no error, the bucket of the provider
\* exists with its "modified" put, and no version bucket was added.
EmptyListingCommits ==
  [][\A p \in Syncers :
       /\ ( /\ mpc[p] = "sv_inflight" /\ mpc'[p] = "sv_put"
            /\ ~up.body.array /\ ~tx'.nil )
          => /\ tx'.entries = {} /\ tx'.todo = << >>
             /\ ~merr'[p]
       /\ ( /\ mpc[p] = "sv_put" /\ mpc'[p] # "sv_put"
            /\ tx.entries = {} /\ ~tx.nil )
          => /\ mpc'[p] = "sv_return" /\ ~merr'[p]
             /\ db'.typed /\ db'.modified.set
             /\ db'.versions = db.versions
             /\ seen' = tx.gen]_vars

EmptyListingCommitsWitness ==
  \E p \in Syncers :
    /\ mop[p] = "GetVersions" /\ mpc[p] = "done"
    /\ mres[p].status = "ok" /\ mres[p].versions = {}
    /\ db.typed /\ db.modified.set /\ DOMAIN db.versions = {}
    /\ ~up.body.array /\ seen = up.gen

\* C23: a syncVersions and a syncPlatform whose request was answered, with
\* content or with 304, put the current time as "modified" of the bucket;
\* every bucket that was synced has a "modified", and the next sync of the
\* key sends its request with If-Modified-Since.
ModifiedRefreshed ==
  /\ [][\A p \in MetaProcs :
          /\ (mpc[p] = "sv_put" /\ mpc'[p] = "sv_return" /\ ~merr'[p])
             => ParseRFC3339(db'.modified) =
                  [zero |-> FALSE, instant |-> now, off |-> zone]
          /\ (mpc[p] = "sp_inflight" /\ mpc'[p] = "sp_delete" /\ ~merr'[p])
             => /\ mver[p] \in DOMAIN db'.platforms
                /\ ParseRFC3339(db'.platforms[mver[p]].modified) =
                     [zero |-> FALSE, instant |-> now, off |-> zone]
          /\ (mpc[p] = "sv_inflight" /\ mpc'[p] = "sv_put" /\ mref[p])
             => IfModifiedSince(ParseRFC3339(db.modified)).present]_vars
  /\ [](/\ db.typed => db.modified.set
        /\ \A v \in DOMAIN db.platforms : db.platforms[v].modified.set)

ModifiedRefreshedWitness ==
  \E p \in Syncers :
    /\ mpc[p] = "sv_return" /\ ~merr[p] /\ mjob[p] = << >>
    /\ up.body.array /\ Stored(up.body.entries) # {}
    /\ now = 2 /\ ParseRFC3339(db.modified).instant = 2
    /\ "2.0.0" \in DOMAIN db.platforms

\* C24: no step of the service removes the bucket of the provider, a version
\* bucket or a platform bucket, nor the data of one: what is stored stays
\* stored, also when upstream no longer lists a version.
RecordsNeverDeleted ==
  [][/\ db.typed => db'.typed
     /\ DOMAIN db.versions \subseteq DOMAIN db'.versions
     /\ DOMAIN db.platforms \subseteq DOMAIN db'.platforms
     /\ \A v \in DOMAIN db.platforms :
          db.platforms[v].data # NoData => db'.platforms[v].data # NoData]_vars

RecordsNeverDeletedWitness ==
  /\ up.gen > 1 /\ seen = up.gen /\ synced.any
  /\ "1.0.0" \notin synced.last
  /\ "1.0.0" \in DOMAIN db.versions
  /\ "2.0.0" \in DOMAIN db.platforms

\* C30, as stated: every syncVersions that Sync runs and that returns no
\* error starts the goroutine that syncs the platforms of the latest
\* versions, whatever upstream has answered.
SweepAfterEverySync ==
  [][\A p \in Syncers :
       ( /\ mop[p] = "Sync" /\ mpc[p] = "sv_return" /\ mpc'[p] # "sv_return"
         /\ ~merr[p] )
       => \E b \in Bgs : mpc[b] = "idle" /\ mpc'[b] = "bg_next"]_vars

\* C30, amended: the goroutine that syncs the platforms of the latest
\* versions is started exactly when the answer had content from which at
\* least one version was stored, and it is given the first ten of these
\* versions in descending order; after 304, after an empty listing and
\* after an error syncVersions returns without starting it.
SweepOnlyAfterContent ==
  [][\A p \in Syncers :
       /\ (mpc[p] = "sv_put" /\ mpc'[p] = "sv_return" /\ ~merr'[p])
          => /\ mjob'[p] = << >> <=> (tx.nil \/ Stored(tx.entries) = {})
             /\ Len(mjob'[p]) =
                  IF tx.nil THEN 0 ELSE Cardinality(Stored(tx.entries))
       /\ (mpc[p] = "sv_return" /\ mpc'[p] # "sv_return")
          => IF mjob[p] = << >> \/ merr[p]
             THEN \A b \in Bgs : mpc'[b] = mpc[b] /\ mjob'[b] = mjob[b]
             ELSE \E b \in Bgs :
                    /\ mpc[b] = "idle" /\ mpc'[b] = "bg_next"
                    /\ mjob'[b] =
                         SubSeq(mjob[p], 1,
                                IF Len(mjob[p]) >= 10 THEN 10
                                ELSE Len(mjob[p]))]_vars

SweepOnlyAfterContentWitness ==
  \E p \in Syncers :
    /\ mop[p] = "Sync" /\ mpc[p] = "sv_return" /\ ~merr[p]
    /\ mups[p] = 1 /\ mjob[p] = << >>
    /\ up.body.array /\ seen = up.gen
    /\ DOMAIN db.versions # {}
    /\ \A b \in Bgs : mpc[b] = "idle"

\* C28, as stated: a request that ends with ErrTypedNotFound,
\* ErrVersionNotFound or ErrPlatformNotFound of the store is answered with
\* status 404.
NotFoundAnswered404 ==
  \A p \in Syncers :
    ( /\ mpc[p] = "done"
      /\ mres[p].status \in {"ErrTypedNotFound", "ErrVersionNotFound",
                             "ErrPlatformNotFound"} )
    => mres[p].http = 404

\* C29, as stated: the versions a syncVersions has stored are in descending
\* order when it returns, those that are no semantic versions behind all
\* the others, and the background goroutine is given the first ten of
\* them.
SortedParsableFirst ==
  /\ \A p \in Syncers :
       mpc[p] = "sv_return" =>
         \A i, j \in DOMAIN mjob[p] :
           i < j => /\ mjob[p][i] = Nil => mjob[p][j] = Nil
                    /\ ~less(mjob[p][j], mjob[p][i])
  /\ \A b \in Bgs :
       \A i, j \in DOMAIN mjob[b] :
         i < j => /\ mjob[b][i] = Nil => mjob[b][j] = Nil
                  /\ ~less(mjob[b][j], mjob[b][i])

\* What the members of the group that put data have committed is in the
\* store.
SucceededCommitted ==
  \A i \in Members :
    wg[i].put = "data" => gdb[i].exists /\ gdb[i].data = "new"

\* C22, as stated: a syncPlatforms one of whose syncPlatform failed returns
\* nil, and the platforms whose syncPlatform succeeded are committed.
FailedPlatformNotFailing ==
  (gsp.pc = "returned" /\ \E i \in Members : wg[i].err) =>
    ~gsp.err /\ SucceededCommitted

\* C22, amended: syncPlatforms returns an error exactly when a syncPlatform
\* of its group failed, and then as ever the platforms whose syncPlatform
\* succeeded are committed: the Update of the failed one alone is rolled
\* back.
FailedPlatformFailsGroup ==
  /\ SucceededCommitted
  /\ gsp.pc = "returned" =>
       /\ gsp.err <=> \E i \in Members : wg[i].err
       /\ \A i \in Members :
            wg[i].err => gdb[i] \in {NoBucket, OldBucket}

\* A syncPlatforms has returned, one platform failed and another was put.
FailedPlatformFailsGroupWitness ==
  /\ gsp.pc = "returned" /\ gsp.err
  /\ \E i, j \in Members :
       /\ wg[i].err /\ gdb[i] = NoBucket
       /\ wg[j].put = "data" /\ gdb[j].data = "new"

(***************************************************************************)
(* Claims about the service as a whole.                                    *)
(***************************************************************************)
\* The goroutines whose request to the upstream registry is in flight.
InFlight == {p \in MetaProcs : mpc[p] \in {"sv_inflight", "sp_inflight"}}

\* C40: at most one request of a sync to the upstream registry, for a
\* listing or for a platform, is in flight at any time, and the goroutine
\* that sent it holds the write transaction; the members of the group of a
\* syncPlatforms send theirs one after another.
OneUpstreamRequest ==
  /\ Cardinality(InFlight) <= 1
  /\ \A p \in InFlight : writer = p
  /\ Cardinality({i \in Members : wg[i].pc = "inflight"}) <= 1
  /\ \A i \in Members : wg[i].pc = "inflight" => gwriter = i

\* A request is in flight while another goroutine is at its Update.
OneUpstreamRequestWitness ==
  \E p, q \in MetaProcs :
    /\ p # q
    /\ mpc[p] \in {"sv_inflight", "sp_inflight"}
    /\ mpc[q] \in {"sv_begin", "sp_begin"}

\* C39: a GetVersion or GetPlatform whose View finds the provider without
\* the version returns ErrVersionNotFound at once: it has sent no upstream
\* request, called no sync and the store is as it was, though the upstream
\* lists the version; and a version enters the store only in the commit of
\* a syncVersions.
AbsentVersionNotFetched ==
  [][/\ \A p \in Syncers :
          (/\ mpc[p] = "query_version" /\ mpc'[p] # "query_version"
           /\ TypedFound(View(db, tx))
           /\ ~VersionFound(View(db, tx), mver[p]))
            => /\ mpc'[p] = "done"
               /\ mres'[p].status = "ErrVersionNotFound"
               /\ mups'[p] = 0
               /\ db' = db /\ syncing' = syncing
     /\ \A v \in {"1.0.0", "2.0.0"} :
          (~VersionFound(db, v) /\ VersionFound(db', v))
            => \E p \in Syncers :
                 mpc[p] = "sv_put" /\ mpc'[p] = "sv_return" /\ writer = p
    ]_vars

\* A read of version 2.0.0, which the upstream lists, was answered
\* ErrVersionNotFound without a request, and a Sync has since put the
\* version in the store.
AbsentVersionNotFetchedWitness ==
  \E p, q \in Syncers :
    /\ mver[p] = "2.0.0" /\ mpc[p] = "done" /\ mups[p] = 0
    /\ mop[p] \in {"GetVersion", "GetPlatform"}
    /\ mres[p].status = "ErrVersionNotFound"
    /\ "2.0.0" \in Stored(up.body.entries)
    /\ mop[q] = "Sync" /\ mpc[q] = "done" /\ mups[q] = 1
    /\ VersionFound(db, "2.0.0")

\* C36, as stated: the Platforms of the Version a GetVersion returns have
\* one element for each platform the stored version declares, and each
\* element has the filename and the shasum of the stored platform.
OnePlatformPerDeclared ==
  \A p \in Syncers :
    (mop[p] = "GetVersion" /\ mpc[p] = "done" /\ mres[p].status = "ok") =>
      /\ Len(mres[p].platforms) = Len(Declared(db, mver[p]))
      /\ \A i \in DOMAIN mres[p].platforms :
           /\ Field(mres[p].platforms[i], "filename") # << >>
           /\ Field(mres[p].platforms[i], "shasum") # << >>

\* C32: a goroutine that has stored a key in service.syncing deletes it
\* when its syncVersions, syncPlatforms or syncPlatform returns, with or
\* without an error, so a key is in the map only while a goroutine that has
\* stored it is still to return: when none is, the map is empty.
KeysReleased ==
  /\ [](\A k \in syncing : Synchronizers(k) # {})
  /\ [][\A k \in SyncKeys : \A p \in Synchronizers(k) :
          p \notin Synchronizers(k)' => k \notin syncing']_vars

\* A sync that failed has returned and has left no key in the map.
KeysReleasedWitness ==
  /\ syncing = {}
  /\ \A k \in SyncKeys : Synchronizers(k) = {}
  /\ \E p \in Syncers : mpc[p] = "done" /\ mres[p].status = "error"
  /\ \E p \in Syncers :
       mpc[p] = "done" /\ mres[p].status = "ok" /\ mop[p] = "GetVersion"

\* The functions Sync has given to its group.
Given == {b \in Batches : sbatch[b].pc # "none"}

\* C31: the batches of a Sync hold at most ten names each and follow one
\* another from the first name to the last; when Sync returns, syncVersions
\* was called once for each bucket the store held and for no other, and
\* Sync returns an error exactly when one of these calls did.
SyncCallsEachOnce ==
  /\ \A b \in Given :
       /\ sbatch[b].lo < sbatch[b].hi /\ sbatch[b].hi - sbatch[b].lo <= 10
       /\ sbatch[b].lo = IF b = 1 THEN 0 ELSE sbatch[b - 1].hi
       /\ b > 1 => b - 1 \in Given
  /\ ssync.pc \in {"wait", "returned"} /\ ssync.t > 0 =>
       \E b \in Given : sbatch[b].hi = ssync.t
  /\ ssync.pc = "returned" =>
       /\ \A r \in Refs : scalled[r] = IF r < ssync.t THEN 1 ELSE 0
       /\ ssync.err <=> sfailed

\* A Sync of more buckets than one batch holds has returned an error: a
\* call of the first batch failed and the calls after it were made.
SyncCallsEachOnceWitness ==
  /\ ssync.pc = "returned" /\ ssync.t > 10 /\ ssync.err
  /\ sbatch[1].err /\ ~sbatch[2].err
  /\ scalled[ssync.t - 1] = 1

\* C34, as stated: when Get has returned success to the owner of the slot,
\* the output is a regular file that holds the upstream body, whatever the
\* Shasum and whatever temp file an earlier attempt has left.
GetSuccessIsBody ==
  \A p \in Callers :
    (pc[p] = "resolve" /\ held[p]) =>
      files[fname[p]] = Regular(Body(fname[p]))

\* The ranges of a range download are consecutive, of at most 2 MiB, and
\* cover [receivedLength, contentLength).
RangesPartition(l) ==
  LET rs == bytesRanges(l.receivedLength, l.contentLength) IN
    /\ \A i \in DOMAIN rs :
         /\ rs[i][1] < rs[i][2] /\ rs[i][2] - rs[i][1] <= 2
         /\ rs[i][1] = IF i = 1 THEN l.receivedLength ELSE rs[i - 1][2]
    /\ rs # << >> => rs[Len(rs)][2] = l.contentLength
    /\ rs = << >> <=> l.receivedLength >= l.contentLength

\* C33, as stated: a range download fetches consecutive ranges of at most
\* 2 MiB that cover what is left of the body, and when it has completed
\* without a failed request and Get has installed its temp file, the file
\* has the advertised length and every block of the body at its offset.
RangeDownloadCompletes ==
  [][\A p \in Callers :
       ( /\ pc[p] = "download" /\ get[p].partialDownload
         /\ pc'[p] # "download" /\ faults' = faults )
       => /\ RangesPartition(get[p])
          /\ files'[fname[p]].kind = "file" =>
               /\ Len(files'[fname[p]].data) = get[p].contentLength
               /\ files'[fname[p]].data = Body(fname[p])]_vars

\* The ranges of every range download partition what is left of the body.
RangesAlwaysPartition ==
  \A p \in Callers : get[p].partialDownload => RangesPartition(get[p])

\* C35, as stated: no step of a LoadArchive, whatever its Filename, deletes
\* a regular file that is stored in the explicit directory.
StoredArchivesKept ==
  [][\A f \in Filenames :
       files[f].kind = "file" => files'[f] = files[f]]_vars

\* C38, as stated: every LoadArchive that was called returns.
LoadArchiveReturns ==
  \A p \in Callers : (pc[p] # "idle") ~> (pc[p] = "done")

=============================================================================
